---- MODULE Spec2Model ----
(***************************************************************************)
(* Serial coupling scheme of two participants (cplscheme/                  *)
(* SerialCouplingScheme.cpp) on top of the M2N master channel and the      *)
(* Aitken acceleration.  Each participant runs its own scheme object; the  *)
(* two objects talk over a FIFO channel per direction.  A handler          *)
(* (initialize, initializeData, advance) runs atomically from its entry,   *)
(* or from the blocking receive it was suspended in, up to its next        *)
(* blocking receive or its return.                                         *)
(*                                                                         *)
(* Time is counted in integer units; one configured time step is           *)
(* TimestepLength units long, so math::equals(remainder, 0.0, eps) is      *)
(* remainder = 0.                                                          *)
(***************************************************************************)
EXTENDS Integers, Sequences, FiniteSets, TLC

\* ---------------------------------------------------------------- bounds
MaxData        == 1   \* data per direction: IDs 1..MaxData
MaxTimesteps   == 2   \* largest step / time budget of a run, in time steps
MaxIterations  == 2   \* largest configured maxIterations
TimestepLength == 2   \* time units per time step (sub-steps of one unit)
MaxValue       == 1   \* values a solver writes into a datum: 0..MaxValue
MaxCalls       == 2   \* performAcceleration and iterationsConverged calls made on
                      \* an acceleration object
MaxSlaves      == 1   \* slave ranks of a participant
MaxTransfers   == 1   \* M2N transfers between connecting and closing
MaxVertices    == 2   \* global vertices of a mesh
MaxEntries     == 3   \* vertices the ranks of a participant hold in all

\* ---------------------------------------------------------- participants
First  == 1
Second == 2
Participants == {First, Second}
Peer(p) == IF p = First THEN Second ELSE First

doesFirstStep(p) == p = First

\* ----------------------------------------------------------- configuration
\* A DataMap is a function from data IDs to the datum's initialize flag. Only
\* the number of data and of flagged data matter to the scheme, so one map per
\* pair of numbers is enough: IDs 1..n, of which the last k are flagged.
DataMaps ==
  {[i \in 1 .. n |-> i > n - k] : <<n, k>> \in {x \in (0 .. MaxData) \X (0 .. MaxData) :
                                                   x[2] <= x[1]}}

\* Data are identified by <<sender, id>>; the accelerated datum is the first
\* datum of one of the two directions.
FirstDataIDs(c) ==
  {<<First, 1>> : i \in DOMAIN c.data12} \cup {<<Second, 1>> : i \in DOMAIN c.data21}

\* "No limit" values of the time and of the step budget.
UNDEFINED_TIME      == -1
UNDEFINED_TIMESTEPS == -1

\* A run is limited by a number of time steps or by a maximal time.
Budgets ==
  {[maxTime |-> UNDEFINED_TIME, maxTimesteps |-> n] : n \in 1 .. MaxTimesteps} \cup
  {[maxTime |-> n * TimestepLength, maxTimesteps |-> UNDEFINED_TIMESTEPS] :
     n \in 1 .. MaxTimesteps}

\* No acceleration, Aitken, or a multi-level acceleration (which steers the
\* scheme's coarse-model flag) on the second participant's data.
Accelerations(c) ==
  {[kind |-> "none", dataIDs |-> <<>>]} \cup
  {[kind |-> "Aitken", dataIDs |-> <<d>>] : d \in FirstDataIDs(c)} \cup
  {[kind |-> "Multilevel", dataIDs |-> <<d>>] : d \in FirstDataIDs(c) \cap {<<Second, 1>>}}

DataConfigs == {[data12 |-> a, data21 |-> b] : a \in DataMaps, b \in DataMaps}

Configurations ==
  {[couplingMode |-> "Explicit", maxIterations |-> 1, data12 |-> d.data12,
    data21 |-> d.data21, maxTime |-> b.maxTime, maxTimesteps |-> b.maxTimesteps,
    acceleration |-> [kind |-> "none", dataIDs |-> <<>>]] :
      d \in DataConfigs, b \in Budgets}
  \cup
  UNION {
    {[couplingMode |-> "Implicit", maxIterations |-> n, data12 |-> d.data12,
      data21 |-> d.data21, maxTime |-> b.maxTime, maxTimesteps |-> b.maxTimesteps,
      acceleration |-> a] : n \in 1 .. MaxIterations, b \in Budgets, a \in Accelerations(d)}
    : d \in DataConfigs}

VARIABLES
  cfg,     \* the coupling configuration both participants were constructed with
  scheme,  \* scheme[p]: the SerialCouplingScheme object of participant p
  acc,     \* acc[p]: the acceleration object of participant p
  chan,    \* chan[p]: master-channel messages in flight to participant p
  hist,    \* hist[p]: the current (or last) call of p: its name, the scheme at
           \* its entry, what it read from its collaborators, its M2N calls,
           \* and the count of non-converged fine-model iterations of the step
  aitken,  \* an AitkenAcceleration object with the data it works on, and its
           \* last call (used when the acceleration is looked at on its own)
  m2n      \* the M2N objects of the ranks of two participants, with the
           \* channels between them, or the distributed exchange of a mesh
           \* (used when the classes of namespace m2n are looked at on their own)

vars == <<cfg, scheme, acc, chan, hist, aitken, m2n>>

\* getSendData() / getReceiveData() of participant p
getSendData(c, p)    == IF doesFirstStep(p) THEN c.data12 ELSE c.data21
getReceiveData(c, p) == IF doesFirstStep(p) THEN c.data21 ELSE c.data12

\* --------------------------------------------------------------- contexts
\* A handler is evaluated on a context: the scheme object s, the acceleration
\* object a, the messages the handler has put on the channel (out) and the
\* sequence of M2N calls it has made (ops); relaxed holds the values a relaxation
\* made in the handler gives the send data (see RelaxedInputs), registered the
\* values a registration of the coarse data gives them (see RegisteredInputs).
Ctx(s, a, ops) ==
  [s |-> s, a |-> a, out |-> <<>>, ops |-> ops, relaxed |-> <<>>, registered |-> <<>>]

SetS(c, s) == [c EXCEPT !.s = s]

Fail(c, what) == [c EXCEPT !.s.pc = "failed", !.s.error = what]

At(c, label) == [c EXCEPT !.s.pc = label]


OK(c) == c.s.pc # "failed"

\* ------------------------------------------------------------ M2N channel
\* The participants run without slaves, so every M2N call goes over the
\* master channel to peer 0 (M2N::send / M2N::receive, coupling mode).
WireType(what) ==
  CASE what = "dt" -> "double"
    [] what = "data" -> "array"
    [] OTHER -> "bool"

\* M2N::send(bool), M2N::send(double), M2N::send(double const*, ...)
m2nSend(c, what, val) ==
  [c EXCEPT !.out = Append(@, [type |-> WireType(what), val |-> val]),
            !.ops = Append(@, <<"send", what>>)]

\* M2N::receive(...): the call is logged; the caller supplies the message.
m2nReceive(c, what) == [c EXCEPT !.ops = Append(@, <<"receive", what>>)]

\* Sorted sequence of the IDs of a data map (std::map iterates in key order).
RECURSIVE IdSeq(_)
IdSeq(S) ==
  IF S = {} THEN <<>>
  ELSE LET m == CHOOSE x \in S : \A y \in S : x <= y IN <<m>> \o IdSeq(S \ {m})

\* ------------------------------------------ BaseCouplingScheme (base class)
\* isCouplingOngoing(): time left and time steps left.
isCouplingOngoing(s) ==
  /\ (cfg.maxTime = UNDEFINED_TIME \/ cfg.maxTime > s.time)
  /\ (cfg.maxTimesteps = UNDEFINED_TIMESTEPS \/ cfg.maxTimesteps > s.timesteps)

getThisTimestepRemainder(s) == s.timestepLength - s.computedTimestepPart

requireAction(s, tag) == [s EXCEPT !.actions = @ \cup {tag}]

isActionRequired(s, tag) == tag \in s.actions

\* timestepCompleted(): the step is complete and the step counter advances.
timestepCompleted(s) ==
  [s EXCEPT !.isCouplingTimestepComplete = TRUE, !.timesteps = @ + 1]

maxIterationsReached(s) == s.iterations >= cfg.maxIterations

\* The first participant sets the time step length and sends it as dt.
participantSetsDt(p)     == doesFirstStep(p)
participantReceivesDt(p) == ~ doesFirstStep(p)

sendDt(c, p) ==
  IF participantSetsDt(p) THEN m2nSend(c, "dt", c.s.timestepLength) ELSE c

\* receiveAndSetDt() on a participant that receives dt; msg is the message read.
receiveAndSetDt(c, msg) ==
  [m2nReceive(c, "dt") EXCEPT !.s.timestepLength = msg.val]

\* sendData(m2n): one array per send datum, in ID order.
RECURSIVE sendIds(_, _)
sendIds(c, ids) ==
  IF ids = <<>> THEN c
  ELSE sendIds(m2nSend(c, "data", c.s.sendValues[Head(ids)]), Tail(ids))

sendData(c, p) == sendIds(c, IdSeq(DOMAIN getSendData(cfg, p)))

\* receiveData(m2n): one array per receive datum, in ID order, each stored in
\* the values of its datum; msgs are the messages in flight to the receiver.
RECURSIVE receiveIds(_, _, _)
receiveIds(c, ids, msgs) ==
  IF ids = <<>> THEN c
  ELSE receiveIds([m2nReceive(c, "data") EXCEPT
                     !.s.receiveValues[Head(ids)] = Head(msgs).val],
                  Tail(ids), Tail(msgs))

receiveData(c, p) == receiveIds(c, IdSeq(DOMAIN getReceiveData(cfg, p)), chan[p])

\* updateTimeAndIterations(convergence, convergenceCoarseOptimization)
updateTimeAndIterations(s) ==
  IF ~ s.convergence
    THEN LET s1 == [s EXCEPT !.time = @ - s.computedTimestepPart]
         IN  IF s1.isCoarseModelOptimizationActive
               THEN [s1 EXCEPT !.iterationsCoarseOptimization = @ + 1]
               ELSE [s1 EXCEPT !.iterations = @ + 1]
    ELSE [s EXCEPT !.iterations = 1, !.iterationsCoarseOptimization = 1]

\* addComputedTime(timeToAdd)
addComputedTime(s, dt) ==
  [s EXCEPT !.computedTimestepPart = @ + dt, !.time = @ + dt]

\* markActionFulfilled(tag)
markActionFulfilled(s, tag) == [s EXCEPT !.actions = @ \ {tag}]

\* ------------------------------------------------------------ acceleration
\* AitkenAcceleration::initialize; the multi-level acceleration is the other
\* variant the scheme is wired with.
accInitialize(c, p) ==
  IF Head(cfg.acceleration.dataIDs) \notin {<<p, i>> : i \in DOMAIN getSendData(cfg, p)}
    THEN Fail(c, "AccelerationDataNotContained")
    ELSE [c EXCEPT !.a.residuals = "sentinel",
                   \* a column of zeros for every datum that has none
                   !.s.sendOldValues =
                      [i \in DOMAIN @ |-> IF @[i] = <<>> THEN <<0>> ELSE @[i]]]

\* The values omega * values + (1 - omega) * oldValues.col(0) can take for a
\* finite factor omega: the value itself where it equals the old value, any
\* value where it does not.
RelaxedValues(v, old) == IF v = old THEN {v} ELSE 0 .. MaxValue

\* AitkenAcceleration::performAcceleration: the control state, and the send
\* data relaxed to c.relaxed (the factor is computed in AitkenPerformAcceleration).
\* The multi-level variant may write the flag the scheme handed to it (newFlag).
performAcceleration(c, newFlag) ==
  LET c1 == [c EXCEPT !.a.residuals = "stored", !.a.iterationCounter = @ + 1,
                      !.s.sendValues = c.relaxed]
  IN  IF cfg.acceleration.kind = "Multilevel"
        THEN [c1 EXCEPT !.s.isCoarseModelOptimizationActive = newFlag]
        ELSE c1

\* Faulty variant of iterationsConverged: the iteration counter is kept.
iterationsConverged_NoReset(c, newFlag) ==
  LET c1 == [c EXCEPT !.a.residuals = "sentinel"]
  IN  IF cfg.acceleration.kind = "Multilevel"
        THEN [c1 EXCEPT !.s.isCoarseModelOptimizationActive = newFlag]
        ELSE c1

\* AitkenAcceleration::iterationsConverged
iterationsConverged(c, newFlag) ==
  LET c1 == [c EXCEPT !.a.residuals = "sentinel", !.a.iterationCounter = 0]
  IN  IF cfg.acceleration.kind = "Multilevel"
        THEN [c1 EXCEPT !.s.isCoarseModelOptimizationActive = newFlag]
        ELSE c1

hasAcceleration == cfg.acceleration.kind # "none"


\* ------------------------------------------------------------- constructor
\* State of a scheme object after construction (members of the base class).
NewScheme ==
  [pc |-> "constructed", error |-> "none", isInitialized |-> FALSE,
   time |-> 0, timesteps |-> 0, computedTimestepPart |-> 0,
   timestepLength |-> TimestepLength,
   iterations |-> 1, iterationsCoarseOptimization |-> 1, actions |-> {},
   hasToSendInitData |-> FALSE, hasToReceiveInitData |-> FALSE,
   hasDataBeenExchanged |-> FALSE, isCouplingTimestepComplete |-> FALSE,
   isCoarseModelOptimizationActive |-> FALSE,
   \* locals of advance() that live across its blocking receives
   convergence |-> TRUE, convergenceCoarseOptimization |-> TRUE,
   doOnlySolverEvaluation |-> FALSE,
   \* values of the send data and of the receive data, by position in the map
   sendValues |-> <<>>, receiveValues |-> <<>>,
   \* oldValues of the send data and of the receive data: the columns of each
   \* datum, column 0 first
   sendOldValues |-> <<>>, receiveOldValues |-> <<>>]

\* The values of the data of a map are zero until written or received.
ZeroValues(data) == [i \in DOMAIN data |-> 0]

\* A history of `depth` columns of zeros for every datum of a map.
ZeroColumns(data, depth) == [i \in DOMAIN data |-> [k \in 1 .. depth |-> 0]]

\* The scheme of participant p with its data attached (addCouplingData); the
\* histories have no column yet.
SchemeOf(c, p) ==
  [NewScheme EXCEPT !.sendValues = ZeroValues(getSendData(c, p)),
                    !.receiveValues = ZeroValues(getReceiveData(c, p)),
                    !.sendOldValues = ZeroColumns(getSendData(c, p), 0),
                    !.receiveOldValues = ZeroColumns(getReceiveData(c, p), 0)]

\* AitkenAcceleration after construction: _iterationCounter = 0, no residuals.
NewAcceleration == [iterationCounter |-> 0, residuals |-> "empty"]

\* No M2N object is looked at on its own.
NoM2N == [rank |-> "none"]

\* No acceleration object is looked at on its own.
NoAitken == [obj |-> "none", last |-> "none"]

Init ==
  /\ cfg \in Configurations
  /\ scheme = [p \in Participants |-> SchemeOf(cfg, p)]
  /\ acc = [p \in Participants |-> NewAcceleration]
  /\ chan = [p \in Participants |-> <<>>]
  /\ hist = [p \in Participants |->
               [call |-> "construct", entry |-> NewScheme,
                measured |-> <<TRUE, TRUE, FALSE>>, ops |-> <<>>,
                fine |-> 0]]
  /\ aitken = NoAitken
  /\ m2n = NoM2N

\* -------------------------------------------------------------- initialize
\* Faulty variant of initializeImplicit: only the second participant is asked for an
\* iteration checkpoint.
initializeImplicit_SecondOnly(c, p) ==
  IF cfg.couplingMode # "Implicit" THEN c
  ELSE IF DOMAIN getSendData(cfg, p) = {} THEN Fail(c, "NoSendData")
  ELSE IF doesFirstStep(p) THEN c
  ELSE SetS(c, requireAction(c.s, "writeIterationCheckpoint"))

\* initialize(), implicit part: send data required, acceleration set up on the
\* second participant, iteration checkpoint required.
initializeImplicit(c, p) ==
  IF cfg.couplingMode # "Implicit" THEN c
  ELSE IF DOMAIN getSendData(cfg, p) = {} THEN Fail(c, "NoSendData")
  ELSE
    LET c1 == IF ~ doesFirstStep(p)
                THEN (IF hasAcceleration THEN accInitialize(c, p) ELSE c)
                ELSE IF hasAcceleration /\ Len(cfg.acceleration.dataIDs) > 0
                          /\ Head(cfg.acceleration.dataIDs) \in
                               {<<p, i>> : i \in DOMAIN getSendData(cfg, p)}
                       THEN Fail(c, "AccelerationOnFirstParticipant")
                       ELSE c
    IN  IF OK(c1)
          THEN SetS(c1, requireAction(c1.s, "writeIterationCheckpoint"))
          ELSE c1

\* Faulty variant of initializeSendData: any participant may initialize send data.
initializeSendData_AnyParticipant(c, p) ==
  IF \E i \in DOMAIN getSendData(cfg, p) : getSendData(cfg, p)[i]
    THEN [c EXCEPT !.s.hasToSendInitData = TRUE]
    ELSE c

\* initialize(), loop over the send data.
initializeSendData(c, p) ==
  IF \E i \in DOMAIN getSendData(cfg, p) : getSendData(cfg, p)[i]
    THEN IF doesFirstStep(p)
           THEN Fail(c, "OnlySecondCanInitialize")
           ELSE [c EXCEPT !.s.hasToSendInitData = TRUE]
    ELSE c

\* initialize(), loop over the receive data.
initializeReceiveData(c, p) ==
  IF \E i \in DOMAIN getReceiveData(cfg, p) : getReceiveData(cfg, p)[i]
    THEN IF ~ doesFirstStep(p)
           THEN Fail(c, "OnlyFirstCanReceiveInitialData")
           ELSE [c EXCEPT !.s.hasToReceiveInitData = TRUE]
    ELSE c

\* initialize(), after the optional first receive.
initializeEnd(c) ==
  LET s1 == IF c.s.hasToSendInitData
              THEN requireAction(c.s, "writeInitialData") ELSE c.s
  IN  SetS(c, [s1 EXCEPT !.isInitialized = TRUE, !.pc = "idle"])

\* Faulty variant of initialize: the first receive is done by the first participant.
initialize_FirstReceives(c, p) ==
  LET c0 == [c EXCEPT !.s.time = 0, !.s.timesteps = 0]
      c1 == initializeImplicit(c0, p)
      c2 == IF OK(c1) THEN initializeSendData(c1, p) ELSE c1
      c3 == IF OK(c2) THEN initializeReceiveData(c2, p) ELSE c2
  IN  IF ~ OK(c3) THEN c3
      ELSE IF doesFirstStep(p) /\ ~ c3.s.hasToSendInitData /\ isCouplingOngoing(c3.s)
        THEN At(c3, "initialize_receiveAndSetDt")
        ELSE initializeEnd(c3)

\* initialize() up to its first blocking receive or its return.
initialize(c, p) ==
  LET c0 == [c EXCEPT !.s.time = 0, !.s.timesteps = 0]
      c1 == initializeImplicit(c0, p)
      c2 == IF OK(c1) THEN initializeSendData(c1, p) ELSE c1
      c3 == IF OK(c2) THEN initializeReceiveData(c2, p) ELSE c2
  IN  IF ~ OK(c3) THEN c3
      ELSE IF ~ doesFirstStep(p) /\ ~ c3.s.hasToSendInitData /\ isCouplingOngoing(c3.s)
        THEN At(c3, "initialize_receiveAndSetDt")
        ELSE initializeEnd(c3)

\* ----------------------------------------------------------- state update
\* A step of participant p ends in context c having read n messages.
Commit(p, c, n) ==
  /\ scheme' = [scheme EXCEPT ![p] = c.s]
  /\ acc' = [acc EXCEPT ![p] = c.a]
  /\ chan' = [q \in Participants |->
                IF q = p THEN SubSeq(chan[p], n + 1, Len(chan[p]))
                         ELSE chan[q] \o c.out]
  /\ UNCHANGED <<cfg, aitken, m2n>>

\* p enters the call `name`.
Enter(p, name, c) ==
  \E r \in {c} :
    /\ Commit(p, r, 0)
    /\ hist' = [hist EXCEPT ![p] = [call |-> name, entry |-> scheme[p],
                                    measured |-> <<TRUE, TRUE, FALSE>>, ops |-> r.ops,
                                    fine |-> hist[p].fine]]

\* p resumes its call after reading n messages.
Resume(p, c, n) ==
  \E r \in {c} :
    /\ Commit(p, r, n)
    /\ hist' = [hist EXCEPT ![p].ops = r.ops]

Start(p)  == Ctx(scheme[p], acc[p], <<>>)
Cont(p)   == Ctx(scheme[p], acc[p], hist[p].ops)

\* The first n messages in flight to p all have the wire type the receive expects.
Typed(p, n, what) == \A i \in 1 .. n : chan[p][i].type = WireType(what)

NumReceiveData(p) == Cardinality(DOMAIN getReceiveData(cfg, p))

\* ------------------------------------------------------ actions: initialize
Initialize(p) ==
  /\ scheme[p].pc = "constructed"
  /\ Enter(p, "initialize", initialize(Start(p), p))

InitializeReceiveDt(p) ==
  /\ scheme[p].pc = "initialize_receiveAndSetDt"
  /\ Len(chan[p]) >= 1
  /\ Resume(p, IF Typed(p, 1, "dt")
                 THEN At(receiveAndSetDt(Cont(p), Head(chan[p])), "initialize_receiveData")
                 ELSE Fail(Cont(p), "WireTypeMismatch"), 1)

InitializeReceiveData(p) ==
  /\ scheme[p].pc = "initialize_receiveData"
  /\ Len(chan[p]) >= NumReceiveData(p)
  /\ Resume(p, IF Typed(p, NumReceiveData(p), "data")
                 THEN initializeEnd([receiveData(Cont(p), p) EXCEPT
                                       !.s.hasDataBeenExchanged = TRUE])
                 ELSE Fail(Cont(p), "WireTypeMismatch"), NumReceiveData(p))

\* ---------------------------------------------------------- initializeData
\* initializeData(), tail: the flags are cleared so that advance() can tell
\* that the call has been made.
initializeDataEnd(c) ==
  [c EXCEPT !.s.hasToSendInitData = FALSE, !.s.hasToReceiveInitData = FALSE,
            !.s.pc = "idle"]

\* utils::shiftSetFirst: the columns move one place to the right, the last is
\* dropped, and v is the new column 0.
shiftSetFirst(columns, v) == <<v>> \o SubSeq(columns, 1, Len(columns) - 1)

\* initializeData(), loop over the send data (in ID order, from ID i on): the
\* initial values become column 0; the loop ends at a datum without history.
RECURSIVE shiftInitialValues(_, _, _)
shiftInitialValues(old, values, i) ==
  IF i \notin DOMAIN old \/ old[i] = <<>> THEN old
  ELSE shiftInitialValues(
         [old EXCEPT ![i] = shiftSetFirst([@ EXCEPT ![1] = values[i]], values[i])],
         values, i + 1)

\* initializeData(), second participant: send the initial data, then do the
\* receive that initialize() left out.
initializeDataSend(c, p) ==
  IF c.s.hasToSendInitData /\ isCouplingOngoing(c.s)
    THEN At(sendData([c EXCEPT !.s.sendOldValues =
                                  shiftInitialValues(@, c.s.sendValues, 1)], p),
            IF participantReceivesDt(p) THEN "initializeData_receiveAndSetDt"
                                        ELSE "initializeData_receiveData2")
    ELSE initializeDataEnd(c)

\* Faulty variant of initializeData: the initial data are not received.
initializeData_NoReceive(c, p) ==
  IF ~ c.s.isInitialized THEN Fail(c, "InitializeDataBeforeInitialize")
  ELSE IF ~ c.s.hasToSendInitData /\ ~ c.s.hasToReceiveInitData THEN c
  ELSE IF c.s.hasToSendInitData /\ isActionRequired(c.s, "writeInitialData")
    THEN Fail(c, "InitialDataNotWritten")
  ELSE initializeDataSend([c EXCEPT !.s.hasDataBeenExchanged = FALSE], p)

\* Faulty variant of initializeData: writeInitialData is not looked at.
initializeData_NoWriteCheck(c, p) ==
  IF ~ c.s.isInitialized THEN Fail(c, "InitializeDataBeforeInitialize")
  ELSE IF ~ c.s.hasToSendInitData /\ ~ c.s.hasToReceiveInitData THEN c
  ELSE
    LET c1 == [c EXCEPT !.s.hasDataBeenExchanged = FALSE]
    IN  IF c1.s.hasToReceiveInitData /\ isCouplingOngoing(c1.s)
          THEN At(c1, "initializeData_receiveData")
          ELSE initializeDataSend(c1, p)

\* initializeData() up to its first blocking receive or its return.
initializeData(c, p) ==
  IF ~ c.s.isInitialized THEN Fail(c, "InitializeDataBeforeInitialize")
  ELSE IF ~ c.s.hasToSendInitData /\ ~ c.s.hasToReceiveInitData THEN c
  ELSE IF c.s.hasToSendInitData /\ isActionRequired(c.s, "writeInitialData")
    THEN Fail(c, "InitialDataNotWritten")
  ELSE
    LET c1 == [c EXCEPT !.s.hasDataBeenExchanged = FALSE]
    IN  IF c1.s.hasToReceiveInitData /\ isCouplingOngoing(c1.s)
          THEN At(c1, "initializeData_receiveData")
          ELSE initializeDataSend(c1, p)

InitializeData(p) ==
  /\ scheme[p].pc \in {"constructed", "idle"}
  /\ Enter(p, "initializeData", initializeData(Start(p), p))

InitializeDataReceiveData(p) ==
  /\ scheme[p].pc = "initializeData_receiveData"
  /\ Len(chan[p]) >= NumReceiveData(p)
  /\ Resume(p, IF Typed(p, NumReceiveData(p), "data")
                 THEN initializeDataSend([receiveData(Cont(p), p) EXCEPT
                                            !.s.hasDataBeenExchanged = TRUE], p)
                 ELSE Fail(Cont(p), "WireTypeMismatch"), NumReceiveData(p))

InitializeDataReceiveDt(p) ==
  /\ scheme[p].pc = "initializeData_receiveAndSetDt"
  /\ Len(chan[p]) >= 1
  /\ Resume(p, IF Typed(p, 1, "dt")
                 THEN At(receiveAndSetDt(Cont(p), Head(chan[p])),
                         "initializeData_receiveData2")
                 ELSE Fail(Cont(p), "WireTypeMismatch"), 1)

InitializeDataReceiveData2(p) ==
  /\ scheme[p].pc = "initializeData_receiveData2"
  /\ Len(chan[p]) >= NumReceiveData(p)
  /\ Resume(p, IF Typed(p, NumReceiveData(p), "data")
                 THEN initializeDataEnd([receiveData(Cont(p), p) EXCEPT
                                           !.s.hasDataBeenExchanged = TRUE])
                 ELSE Fail(Cont(p), "WireTypeMismatch"), NumReceiveData(p))

\* ------------------------------------------------ calls of the user's solver
MarkActionFulfilled(p) ==
  /\ scheme[p].pc = "idle"
  /\ \E tag \in scheme[p].actions :
       Enter(p, "markActionFulfilled",
             SetS(Start(p), markActionFulfilled(scheme[p], tag)))

\* ----------------------------------------------------------------- advance
\* Faulty variant of advanceEnter: outstanding required actions are not looked at.
advanceEnter_NoActionCheck(c) ==
  IF c.s.hasToReceiveInitData \/ c.s.hasToSendInitData
    THEN Fail(c, "InitializeDataNotCalled")
  ELSE [c EXCEPT !.s.hasDataBeenExchanged = FALSE,
                 !.s.isCouplingTimestepComplete = FALSE]

\* advance(), entry: outstanding actions and a missing initializeData() are
\* errors; the two result flags are cleared.
advanceEnter(c) ==
  IF c.s.actions # {} THEN Fail(c, "UnfulfilledRequiredActions")
  ELSE IF c.s.hasToReceiveInitData \/ c.s.hasToSendInitData
    THEN Fail(c, "InitializeDataNotCalled")
  ELSE [c EXCEPT !.s.hasDataBeenExchanged = FALSE,
                 !.s.isCouplingTimestepComplete = FALSE]

\* advance(), explicit mode, after the receive (or without one).
advanceExplicitEnd(c) ==
  [c EXCEPT !.s.computedTimestepPart = 0, !.s.pc = "idle"]

\* Faulty variant of advanceExplicit: the step is completed without looking at the
\* remainder of the time step.
advanceExplicit_NoRemainderCheck(c, p) ==
  LET c1 == [c EXCEPT !.s.isCouplingTimestepComplete = TRUE, !.s.timesteps = @ + 1]
      c2 == sendData(sendDt(c1, p), p)
  IN  IF isCouplingOngoing(c2.s) \/ doesFirstStep(p)
        THEN At(c2, IF participantReceivesDt(p)
                      THEN "advance_explicit_receiveAndSetDt"
                      ELSE "advance_explicit_receiveData")
        ELSE [c2 EXCEPT !.s.computedTimestepPart = 0, !.s.pc = "idle"]

\* Faulty variant of advanceExplicit: no participant receives once the coupling
\* has ended.
advanceExplicit_OngoingOnly(c, p) ==
  IF getThisTimestepRemainder(c.s) = 0
    THEN LET c1 == [c EXCEPT !.s.isCouplingTimestepComplete = TRUE,
                             !.s.timesteps = @ + 1]
             c2 == sendData(sendDt(c1, p), p)
         IN  IF isCouplingOngoing(c2.s)
               THEN At(c2, IF participantReceivesDt(p)
                             THEN "advance_explicit_receiveAndSetDt"
                             ELSE "advance_explicit_receiveData")
               ELSE advanceExplicitEnd(c2)
    ELSE At(c, "idle")

\* advance(), explicit mode, up to the receive.
advanceExplicit(c, p) ==
  IF getThisTimestepRemainder(c.s) = 0
    THEN LET c1 == [c EXCEPT !.s.isCouplingTimestepComplete = TRUE,
                             !.s.timesteps = @ + 1]
             c2 == sendData(sendDt(c1, p), p)
         IN  IF isCouplingOngoing(c2.s) \/ doesFirstStep(p)
               THEN At(c2, IF participantReceivesDt(p)
                             THEN "advance_explicit_receiveAndSetDt"
                             ELSE "advance_explicit_receiveData")
               ELSE advanceExplicitEnd(c2)
    ELSE At(c, "idle")

\* Faulty variant of advanceFirstSend: the data are sent a second time.
advanceFirstSend_DataTwice(c, p) == sendData(sendData(sendDt(c, p), p), p)

\* advance(), implicit mode, first participant: send dt and data.
advanceFirstSend(c, p) == sendData(sendDt(c, p), p)

\* Faulty variant of advanceSecondMeasure: the iteration limit is not looked at.
advanceSecondMeasure_NoLimit(c, m, mc) ==
  IF c.s.isCoarseModelOptimizationActive
    THEN [c EXCEPT !.s.convergenceCoarseOptimization = mc,
                   !.s.convergence = FALSE,
                   !.s.isCoarseModelOptimizationActive = ~ mc,
                   !.s.doOnlySolverEvaluation = mc]
    ELSE [c EXCEPT !.s.doOnlySolverEvaluation = FALSE, !.s.convergence = m]

\* Faulty variant of advanceSecondMeasure: the iteration limit is looked at in
\* the coarse-model optimization only.
advanceSecondMeasure_NoFineLimit(c, m, mc) ==
  IF c.s.isCoarseModelOptimizationActive
    THEN LET cc == mc \/ maxIterationsReached(c.s)
         IN  [c EXCEPT !.s.convergenceCoarseOptimization = cc,
                       !.s.convergence = FALSE,
                       !.s.isCoarseModelOptimizationActive = ~ cc,
                       !.s.doOnlySolverEvaluation = cc]
    ELSE [c EXCEPT !.s.doOnlySolverEvaluation = FALSE, !.s.convergence = m]

\* advance(), implicit mode, second participant: measure convergence.
\* m and mc are the results of measureConvergence and of
\* measureConvergenceCoarseModelOptimization.
advanceSecondMeasure(c, m, mc) ==
  IF c.s.isCoarseModelOptimizationActive
    THEN LET cc == mc \/ maxIterationsReached(c.s)
         IN  [c EXCEPT !.s.convergenceCoarseOptimization = cc,
                       !.s.convergence = FALSE,
                       !.s.isCoarseModelOptimizationActive = ~ cc,
                       !.s.doOnlySolverEvaluation = cc]
    ELSE [c EXCEPT !.s.doOnlySolverEvaluation = FALSE,
                   !.s.convergence = m \/ maxIterationsReached(c.s)]

\* oldValues.col(0) = *values for every datum with a history
storeColumn(old, values) ==
  [i \in DOMAIN old |-> IF old[i] # <<>> THEN [old[i] EXCEPT ![1] = values[i]]
                                        ELSE old[i]]

\* Faulty variant of storeData: the receive data are stored only.
storeData_ReceiveOnly(c) ==
  [c EXCEPT !.s.receiveOldValues = storeColumn(@, c.s.receiveValues)]

\* advance(), implicit mode, second participant: the values of the send data
\* and of the receive data are stored in column 0 of their histories (the
\* extrapolation order is 0, so that no data are extrapolated).
storeData(c) ==
  [c EXCEPT !.s.sendOldValues = storeColumn(@, c.s.sendValues),
            !.s.receiveOldValues = storeColumn(@, c.s.receiveValues)]

\* Faulty variant of advanceSecondAccelerate: a solver-evaluation-only substep
\* is accelerated and stored like any other iteration.
advanceSecondAccelerate_NoSolverEvaluationOnly(c, newFlag) ==
  storeData(
    IF c.s.convergence
      THEN LET c1 == IF hasAcceleration THEN iterationsConverged(c, newFlag) ELSE c
           IN  SetS(c1, timestepCompleted(c1.s))
      ELSE IF hasAcceleration THEN performAcceleration(c, newFlag) ELSE c)

\* advance(), implicit mode, second participant, solver-evaluation-only
\* substep: if the coarse-model optimization converged in its first iteration,
\* column 0 of the coarse data is written to the values of the accelerated
\* (fine) data.
registerCoarseData(c) ==
  IF c.s.iterationsCoarseOptimization = 1 /\ hasAcceleration
    THEN [c EXCEPT !.s.sendValues = c.registered]
    ELSE c

\* advance(), implicit mode, second participant: complete the step or
\* accelerate, and store the data; in a solver-evaluation-only substep register
\* the coarse data. newFlag is what a multi-level acceleration writes to the flag.
advanceSecondAccelerate(c, newFlag) ==
  IF ~ c.s.doOnlySolverEvaluation
    THEN storeData(
           IF c.s.convergence
             THEN LET c1 == IF hasAcceleration THEN iterationsConverged(c, newFlag) ELSE c
                  IN  SetS(c1, timestepCompleted(c1.s))
             ELSE IF hasAcceleration THEN performAcceleration(c, newFlag) ELSE c)
    ELSE registerCoarseData(c)

\* Faulty variant of advanceSecondSend: the data go out before the control booleans.
advanceSecondSend_DataFirst(c, p) ==
  m2nSend(m2nSend(sendData(c, p), "convergence", c.s.convergence),
          "isCoarseModelOptimizationActive", c.s.isCoarseModelOptimizationActive)

\* Faulty variant of advanceSecondSend: the coarse-model flag is not sent.
advanceSecondSend_NoFlag(c, p) ==
  sendData(m2nSend(c, "convergence", c.s.convergence), p)

\* advance(), implicit mode, second participant: the control booleans, then
\* the data.
advanceSecondSend(c, p) ==
  sendData(m2nSend(m2nSend(c, "convergence", c.s.convergence),
                   "isCoarseModelOptimizationActive",
                   c.s.isCoarseModelOptimizationActive), p)

\* Faulty variant of advanceImplicitEnd: the checkpoint is required after every iteration.
advanceImplicitEnd_AlwaysRequire(c) ==
  LET s2 == updateTimeAndIterations(requireAction(c.s, "readIterationCheckpoint"))
  IN  SetS(c, [s2 EXCEPT !.computedTimestepPart = 0, !.pc = "idle"])

\* Faulty variant of advanceImplicitEnd: the checkpoint is required after convergence
\* instead of after non-convergence.
advanceImplicitEnd_Inverted(c) ==
  LET s1 == IF c.s.convergence
              THEN requireAction(c.s, "readIterationCheckpoint") ELSE c.s
      s2 == updateTimeAndIterations(s1)
  IN  SetS(c, [s2 EXCEPT !.computedTimestepPart = 0, !.pc = "idle"])

\* advance(), implicit mode, tail of the completed sub-cycle.
advanceImplicitEnd(c) ==
  LET s1 == IF ~ c.s.convergence
              THEN requireAction(c.s, "readIterationCheckpoint") ELSE c.s
      s2 == updateTimeAndIterations(s1)
  IN  SetS(c, [s2 EXCEPT !.computedTimestepPart = 0, !.pc = "idle"])

\* Faulty variant of advanceImplicit: the second participant receives only
\* while the coupling is ongoing.
advanceImplicit_OngoingOnly(c, p, m, mc, newFlag) ==
  LET c0 == [c EXCEPT !.s.convergence = TRUE,
                      !.s.convergenceCoarseOptimization = TRUE,
                      !.s.doOnlySolverEvaluation = FALSE]
  IN  IF getThisTimestepRemainder(c0.s) = 0
        THEN IF doesFirstStep(p)
               THEN At(advanceFirstSend(c0, p), "advance_receiveConvergence")
               ELSE LET c1 == advanceSecondMeasure(c0, m, mc)
                        c2 == advanceSecondAccelerate(c1, newFlag)
                        c3 == advanceSecondSend(c2, p)
                    IN  IF isCouplingOngoing(c3.s)
                          THEN At(c3, "advance_second_receiveAndSetDt")
                          ELSE advanceImplicitEnd(c3)
        ELSE At(c0, "idle")

\* Faulty variant of advanceImplicit: the iteration is made without looking at
\* the remainder of the time step.
advanceImplicit_NoRemainderCheck(c, p, m, mc, newFlag) ==
  LET c0 == [c EXCEPT !.s.convergence = TRUE,
                      !.s.convergenceCoarseOptimization = TRUE,
                      !.s.doOnlySolverEvaluation = FALSE]
  IN  IF doesFirstStep(p)
        THEN At(advanceFirstSend(c0, p), "advance_receiveConvergence")
        ELSE LET c1 == advanceSecondMeasure(c0, m, mc)
                 c2 == advanceSecondAccelerate(c1, newFlag)
                 c3 == advanceSecondSend(c2, p)
             IN  IF isCouplingOngoing(c3.s) \/ ~ c3.s.convergence
                   THEN At(c3, "advance_second_receiveAndSetDt")
                   ELSE advanceImplicitEnd(c3)

\* Faulty variant of advanceImplicit: the second participant sends the control
\* booleans and the data before it calls the acceleration.
advanceImplicit_SendFirst(c, p, m, mc, newFlag) ==
  LET c0 == [c EXCEPT !.s.convergence = TRUE,
                      !.s.convergenceCoarseOptimization = TRUE,
                      !.s.doOnlySolverEvaluation = FALSE]
  IN  IF getThisTimestepRemainder(c0.s) = 0
        THEN IF doesFirstStep(p)
               THEN At(advanceFirstSend(c0, p), "advance_receiveConvergence")
               ELSE LET c1 == advanceSecondMeasure(c0, m, mc)
                        c2 == advanceSecondSend(c1, p)
                        c3 == advanceSecondAccelerate(c2, newFlag)
                    IN  IF isCouplingOngoing(c3.s) \/ ~ c3.s.convergence
                          THEN At(c3, "advance_second_receiveAndSetDt")
                          ELSE advanceImplicitEnd(c3)
        ELSE At(c0, "idle")

\* advance(), implicit mode, up to the first blocking receive.
advanceImplicit(c, p, m, mc, newFlag) ==
  LET c0 == [c EXCEPT !.s.convergence = TRUE,
                      !.s.convergenceCoarseOptimization = TRUE,
                      !.s.doOnlySolverEvaluation = FALSE]
  IN  IF getThisTimestepRemainder(c0.s) = 0
        THEN IF doesFirstStep(p)
               THEN At(advanceFirstSend(c0, p), "advance_receiveConvergence")
               ELSE LET c1 == advanceSecondMeasure(c0, m, mc)
                        c2 == advanceSecondAccelerate(c1, newFlag)
                        c3 == advanceSecondSend(c2, p)
                    IN  IF isCouplingOngoing(c3.s) \/ ~ c3.s.convergence
                          THEN At(c3, "advance_second_receiveAndSetDt")
                          ELSE advanceImplicitEnd(c3)
        ELSE At(c0, "idle")

\* advance() up to its first blocking receive or its return.
advance(c, p, m, mc, newFlag) ==
  LET c1 == advanceEnter(c)
  IN  IF ~ OK(c1) THEN c1
      ELSE IF cfg.couplingMode = "Explicit" THEN advanceExplicit(c1, p)
      ELSE advanceImplicit(c1, p, m, mc, newFlag)

\* What advance() reads from its collaborators: the result m of
\* measureConvergence, the result mc of measureConvergenceCoarseModelOptimization
\* and the value newFlag a multi-level acceleration writes to the coarse-model
\* flag. Each is drawn only where the call is made.
AdvanceInputs(p) ==
  LET measures == cfg.couplingMode = "Implicit" /\ ~ doesFirstStep(p)
      coarse   == scheme[p].isCoarseModelOptimizationActive
  IN  {x \in BOOLEAN \X BOOLEAN \X BOOLEAN :
         /\ (~ measures \/ coarse) => x[1]
         /\ (~ measures \/ ~ coarse) => x[2]
         \* the coarse-model optimization converges within MaxIterations iterations
         /\ scheme[p].iterationsCoarseOptimization >= MaxIterations => x[2]
         /\ (~ measures \/ cfg.acceleration.kind # "Multilevel") => ~ x[3]}

\* The values a relaxation made in advance() of p can give the send data.
RelaxedInputs(p) ==
  {f \in [DOMAIN scheme[p].sendValues -> 0 .. MaxValue] :
     \A i \in DOMAIN f :
       f[i] \in (IF scheme[p].sendOldValues[i] # <<>>
                   THEN RelaxedValues(scheme[p].sendValues[i],
                                      scheme[p].sendOldValues[i][1])
                   ELSE {scheme[p].sendValues[i]})}

\* The number of fine-model iterations of the current time step that have not
\* converged, after an advance() of p that was entered in state entry and has
\* measured convergence in state s: an iteration is a fine-model iteration if
\* the coarse-model optimization is not active when advance() is entered.
FineIterations(p, entry, s) ==
  IF /\ cfg.couplingMode = "Implicit" /\ ~ doesFirstStep(p)
     /\ s.pc # "failed" /\ getThisTimestepRemainder(entry) = 0
    THEN IF s.convergence THEN 0
         ELSE IF entry.isCoarseModelOptimizationActive THEN hist[p].fine
         ELSE hist[p].fine + 1
    ELSE hist[p].fine

\* The values the registration of the coarse data in advance() of p can give
\* the send data: the accelerated datum (the first) takes column 0 of its
\* coarse counterpart, which holds any value; the coarse data are not kept in
\* the data maps of the model.
RegisteredInputs(p) ==
  IF /\ cfg.couplingMode = "Implicit" /\ ~ doesFirstStep(p)
     /\ scheme[p].isCoarseModelOptimizationActive
     /\ scheme[p].iterationsCoarseOptimization = 1
    THEN {f \in [DOMAIN scheme[p].sendValues -> 0 .. MaxValue] :
            \A i \in DOMAIN f : i # 1 => f[i] = scheme[p].sendValues[i]}
    ELSE {scheme[p].sendValues}

\* The solver has computed dt of the current time step and calls advance():
\* addComputedTime(dt), then advance().
Advance(p) ==
  /\ scheme[p].pc = "idle"
  /\ isCouplingOngoing(scheme[p])
  /\ \E dt \in 1 .. getThisTimestepRemainder(scheme[p]), x \in AdvanceInputs(p),
        relaxed \in RelaxedInputs(p), registered \in RegisteredInputs(p) :
       LET c == [SetS(Start(p), addComputedTime(scheme[p], dt)) EXCEPT
                   !.relaxed = relaxed, !.registered = registered]
       IN  \E r \in {advance(c, p, x[1], x[2], x[3])} :
           /\ Commit(p, r, 0)
           /\ hist' = [hist EXCEPT ![p] =
                         [call |-> "advance", entry |-> c.s, measured |-> x,
                          ops |-> r.ops, fine |-> FineIterations(p, c.s, r.s)]]

AdvanceExplicitReceiveDt(p) ==
  /\ scheme[p].pc = "advance_explicit_receiveAndSetDt"
  /\ Len(chan[p]) >= 1
  /\ Resume(p, IF Typed(p, 1, "dt")
                 THEN At(receiveAndSetDt(Cont(p), Head(chan[p])),
                         "advance_explicit_receiveData")
                 ELSE Fail(Cont(p), "WireTypeMismatch"), 1)

AdvanceExplicitReceiveData(p) ==
  /\ scheme[p].pc = "advance_explicit_receiveData"
  /\ Len(chan[p]) >= NumReceiveData(p)
  /\ Resume(p, IF Typed(p, NumReceiveData(p), "data")
                 THEN advanceExplicitEnd([receiveData(Cont(p), p) EXCEPT
                                            !.s.hasDataBeenExchanged = TRUE])
                 ELSE Fail(Cont(p), "WireTypeMismatch"), NumReceiveData(p))

\* First participant: getM2N()->receive(convergence)
AdvanceReceiveConvergence(p) ==
  /\ scheme[p].pc = "advance_receiveConvergence"
  /\ Len(chan[p]) >= 1
  /\ Resume(p, IF Typed(p, 1, "convergence")
                 THEN [m2nReceive(Cont(p), "convergence") EXCEPT
                         !.s.convergence = Head(chan[p]).val,
                         !.s.pc = "advance_receiveCoarse"]
                 ELSE Fail(Cont(p), "WireTypeMismatch"), 1)

\* Faulty variant of advanceFirstCompleted: the step is completed whatever
\* the received convergence flag is.
advanceFirstCompleted_Always(c) == SetS(c, timestepCompleted(c.s))

\* advance(), first participant, after receive(_isCoarseModelOptimizationActive)
advanceFirstCompleted(c) ==
  IF c.s.convergence THEN SetS(c, timestepCompleted(c.s)) ELSE c

\* Faulty variant of AdvanceReceiveCoarse: the flag is read from the channel
\* and not stored.
AdvanceReceiveCoarse_NotStored(p) ==
  /\ scheme[p].pc = "advance_receiveCoarse"
  /\ Len(chan[p]) >= 1
  /\ Resume(p, IF Typed(p, 1, "isCoarseModelOptimizationActive")
                 THEN At(advanceFirstCompleted(
                           m2nReceive(Cont(p), "isCoarseModelOptimizationActive")),
                         "advance_first_receiveData")
                 ELSE Fail(Cont(p), "WireTypeMismatch"), 1)

\* First participant: getM2N()->receive(_isCoarseModelOptimizationActive)
AdvanceReceiveCoarse(p) ==
  /\ scheme[p].pc = "advance_receiveCoarse"
  /\ Len(chan[p]) >= 1
  /\ Resume(p, IF Typed(p, 1, "isCoarseModelOptimizationActive")
                 THEN At(advanceFirstCompleted(
                           [m2nReceive(Cont(p), "isCoarseModelOptimizationActive")
                              EXCEPT !.s.isCoarseModelOptimizationActive =
                                        Head(chan[p]).val]),
                         "advance_first_receiveData")
                 ELSE Fail(Cont(p), "WireTypeMismatch"), 1)

AdvanceFirstReceiveData(p) ==
  /\ scheme[p].pc = "advance_first_receiveData"
  /\ Len(chan[p]) >= NumReceiveData(p)
  /\ Resume(p, IF Typed(p, NumReceiveData(p), "data")
                 THEN advanceImplicitEnd([receiveData(Cont(p), p) EXCEPT
                                            !.s.hasDataBeenExchanged = TRUE])
                 ELSE Fail(Cont(p), "WireTypeMismatch"), NumReceiveData(p))

AdvanceSecondReceiveDt(p) ==
  /\ scheme[p].pc = "advance_second_receiveAndSetDt"
  /\ Len(chan[p]) >= 1
  /\ Resume(p, IF Typed(p, 1, "dt")
                 THEN At(receiveAndSetDt(Cont(p), Head(chan[p])),
                         "advance_second_receiveData")
                 ELSE Fail(Cont(p), "WireTypeMismatch"), 1)

AdvanceSecondReceiveData(p) ==
  /\ scheme[p].pc = "advance_second_receiveData"
  /\ Len(chan[p]) >= NumReceiveData(p)
  /\ Resume(p, IF Typed(p, NumReceiveData(p), "data")
                 THEN advanceImplicitEnd([receiveData(Cont(p), p) EXCEPT
                                            !.s.hasDataBeenExchanged = TRUE])
                 ELSE Fail(Cont(p), "WireTypeMismatch"), NumReceiveData(p))

Next ==
  \E p \in Participants :
    \/ Initialize(p)
    \/ InitializeReceiveDt(p)
    \/ InitializeReceiveData(p)
    \/ InitializeData(p)
    \/ InitializeDataReceiveData(p)
    \/ InitializeDataReceiveDt(p)
    \/ InitializeDataReceiveData2(p)
    \/ MarkActionFulfilled(p)
    \/ Advance(p)
    \/ AdvanceExplicitReceiveDt(p)
    \/ AdvanceExplicitReceiveData(p)
    \/ AdvanceReceiveConvergence(p)
    \/ AdvanceReceiveCoarse(p)
    \/ AdvanceFirstReceiveData(p)
    \/ AdvanceSecondReceiveDt(p)
    \/ AdvanceSecondReceiveData(p)

Spec == Init /\ [][Next]_vars


\* ------------------------------------------------------- the constructor
CouplingModes == {"Explicit", "Implicit", "Undefined"}

\* What a constructor may be called with: any coupling mode with any number of
\* iterations.
ConstructorArguments ==
  {[c EXCEPT !.couplingMode = m, !.maxIterations = n] :
     c \in Configurations, m \in CouplingModes, n \in 1 .. MaxIterations}

\* Faulty variant of SerialCouplingScheme: maxIterations is not looked at.
SerialCouplingScheme_AnyIterations(c) ==
  IF cfg.couplingMode = "Undefined" THEN Fail(c, "AssertionFailed")
  ELSE At(c, "constructed")

\* The constructor: the coupling mode is Explicit or Implicit, and an explicit
\* scheme has maxIterations == 1 (PRECICE_ASSERT).
SerialCouplingScheme(c) ==
  IF cfg.couplingMode = "Undefined" THEN Fail(c, "AssertionFailed")
  ELSE IF cfg.couplingMode = "Explicit" /\ cfg.maxIterations # 1
    THEN Fail(c, "AssertionFailed")
  ELSE At(c, "constructed")

Construct(p) ==
  /\ scheme[p].pc = "unconstructed"
  /\ Enter(p, "construct", SerialCouplingScheme(Start(p)))

InitCtor ==
  /\ cfg \in ConstructorArguments
  /\ scheme = [p \in Participants |-> [SchemeOf(cfg, p) EXCEPT !.pc = "unconstructed"]]
  /\ acc = [p \in Participants |-> NewAcceleration]
  /\ chan = [p \in Participants |-> <<>>]
  /\ hist = [p \in Participants |->
               [call |-> "none", entry |-> NewScheme,
                measured |-> <<TRUE, TRUE, FALSE>>, ops |-> <<>>,
                fine |-> 0]]
  /\ aitken = NoAitken
  /\ m2n = NoM2N

NextCtor == \E p \in Participants : Construct(p)

SpecCtor == InitCtor /\ [][NextCtor]_vars

\* ------------------------------------------- AitkenAcceleration, numerics
\* Values are rational numbers n/d in lowest terms with d > 0. A double that
\* is not a number (the result of 0.0 / 0.0) is NaN; it absorbs arithmetic.
Abs(x) == IF x < 0 THEN -x ELSE x

RECURSIVE Gcd(_, _)
Gcd(a, b) == IF b = 0 THEN a ELSE Gcd(b, a % b)

NaN == [n |-> 0, d |-> 0]

IsNaN(x) == x.d = 0

Rat(n, d) ==
  IF d = 0 THEN NaN
  ELSE LET g == Gcd(Abs(n), Abs(d))
           s == IF d < 0 THEN -1 ELSE 1
       IN  [n |-> s * (n \div g), d |-> s * (d \div g)]

Num(i) == [n |-> i, d |-> 1]

\* Common factors are divided out before multiplying, to keep the integers small.
RAdd(a, b) ==
  IF IsNaN(a) \/ IsNaN(b) THEN NaN
  ELSE LET g == Gcd(a.d, b.d)
       IN  Rat(a.n * (b.d \div g) + b.n * (a.d \div g), (a.d \div g) * b.d)
RNeg(a)    == IF IsNaN(a) THEN NaN ELSE [n |-> -a.n, d |-> a.d]
RSub(a, b) == RAdd(a, RNeg(b))
RMul(a, b) ==
  IF IsNaN(a) \/ IsNaN(b) THEN NaN
  ELSE LET g == Gcd(Abs(a.n), b.d)
           h == Gcd(Abs(b.n), a.d)
       IN  Rat((a.n \div g) * (b.n \div h), (a.d \div h) * (b.d \div g))
\* a / b; the only division by zero the acceleration can make is 0.0 / 0.0.
RDiv(a, b) ==
  IF IsNaN(a) \/ IsNaN(b) THEN NaN
  ELSE IF b.n = 0 THEN NaN
  ELSE RMul(a, Rat(b.d, b.n))
RAbs(a)    == IF IsNaN(a) THEN NaN ELSE [n |-> Abs(a.n), d |-> a.d]
RLess(a, b) == ~ IsNaN(a) /\ ~ IsNaN(b) /\ a.n * b.d < b.n * a.d
\* std::min(a, b): b if b < a, else a
RMin(a, b) == IF RLess(b, a) THEN b ELSE a
\* math::sign
RSign(a) == IF a.n < 0 THEN Num(-1) ELSE Num(1)

\* std::numeric_limits<double>::max(), kept as a mark: it is stored and
\* compared, never computed with.
Sentinel == [n |-> 1, d |-> 0]

\* Vectors are sequences of values.
VSub(x, y) == [i \in DOMAIN x |-> RSub(x[i], y[i])]

RECURSIVE Dot(_, _)
Dot(x, y) ==
  IF x = <<>> THEN Num(0)
  ELSE RAdd(RMul(Head(x), Head(y)), Dot(Tail(x), Tail(y)))

VConstant(n, v) == [i \in 1 .. n |-> v]

\* utils::append over the data of the IDs of ids: the concatenation of field f.
RECURSIVE Concatenation(_, _, _)
Concatenation(data, ids, f) ==
  IF ids = <<>> THEN <<>>
  ELSE (IF f = "values" THEN data[Head(ids)].values
                        ELSE data[Head(ids)].oldValues[1])
         \o Concatenation(data, Tail(ids), f)

\* An acceleration object o with the data map it is given: [o, data].
Obj(o, data) == [o |-> o, data |-> data]

AitkenFail(x, what) == [x EXCEPT !.o.pc = "failed", !.o.error = what]

\* AitkenAcceleration::AitkenAcceleration
AitkenAcceleration(initialRelaxation, dataIDs) ==
  LET valid == RLess(Num(0), initialRelaxation) /\ ~ RLess(Num(1), initialRelaxation)
  IN  [pc |-> IF valid THEN "constructed" ELSE "failed",
       error |-> IF valid THEN "none" ELSE "InvalidInitialRelaxation",
       initialRelaxation |-> initialRelaxation, dataIDs |-> dataIDs,
       aitkenFactor |-> initialRelaxation, iterationCounter |-> 0,
       residuals |-> <<>>, designSpecification |-> <<>>]

\* AitkenAcceleration::initialize
AitkenInitialize(x) ==
  IF Head(x.o.dataIDs) \notin DOMAIN x.data THEN AitkenFail(x, "DataNotContained")
  ELSE
    LET entries == Len(Concatenation(x.data, x.o.dataIDs, "values"))
    IN  [o |-> [x.o EXCEPT !.pc = "initialized",
                           !.residuals = @ \o VConstant(entries, Sentinel),
                           !.designSpecification = VConstant(entries, Num(0))],
         data |-> [id \in DOMAIN x.data |->
                     IF x.data[id].oldValues = <<>>
                       THEN [x.data[id] EXCEPT !.oldValues =
                               <<VConstant(Len(x.data[id].values), Num(0))>>]
                       ELSE x.data[id]]]

\* The relaxation of lines 155-164 with factor omega, on every datum.
Relax(data, omega) ==
  [id \in DOMAIN data |->
     [data[id] EXCEPT !.values =
        [i \in DOMAIN data[id].values |->
           RAdd(RMul(data[id].values[i], omega),
                RMul(data[id].oldValues[1][i], RSub(Num(1), omega)))]]]

\* Faulty variant of performAcceleration: only the accelerated data IDs are
\* relaxed.
AitkenPerformAcceleration_AcceleratedOnly(x, trap) ==
  LET values         == Concatenation(x.data, x.o.dataIDs, "values")
      oldValues      == Concatenation(x.data, x.o.dataIDs, "oldValues")
      residuals      == VSub(values, oldValues)
      residualDeltas == VSub(residuals, x.o.residuals)
      nominator      == Dot(x.o.residuals, residualDeltas)
      denominator    == Dot(residualDeltas, residualDeltas)
      aitkenFactor   ==
        IF x.o.iterationCounter = 0
          THEN RMul(RSign(x.o.aitkenFactor),
                    RMin(x.o.initialRelaxation, RAbs(x.o.aitkenFactor)))
          ELSE RMul(RNeg(x.o.aitkenFactor), RDiv(nominator, denominator))
      accelerated    == {x.o.dataIDs[k] : k \in DOMAIN x.o.dataIDs}
      relaxed        == Relax(x.data, aitkenFactor)
  IN  IF x.o.iterationCounter # 0 /\ denominator = Num(0) /\ trap
        THEN AitkenFail(x, "FloatingPointException")
        ELSE [o |-> [x.o EXCEPT !.aitkenFactor = aitkenFactor,
                                !.residuals = residuals,
                                !.iterationCounter = @ + 1],
              data |-> [id \in DOMAIN x.data |->
                          IF id \in accelerated THEN relaxed[id] ELSE x.data[id]]]

\* AitkenAcceleration::performAcceleration. The division of line 149 has no
\* guard: with a zero denominator it is 0.0 / 0.0, which gives NaN or, where
\* floating-point exceptions trap, ends the program (trap).
AitkenPerformAcceleration(x, trap) ==
  LET values         == Concatenation(x.data, x.o.dataIDs, "values")
      oldValues      == Concatenation(x.data, x.o.dataIDs, "oldValues")
      residuals      == VSub(values, oldValues)
      residualDeltas == VSub(residuals, x.o.residuals)
      nominator      == Dot(x.o.residuals, residualDeltas)
      denominator    == Dot(residualDeltas, residualDeltas)
      aitkenFactor   ==
        IF x.o.iterationCounter = 0
          THEN RMul(RSign(x.o.aitkenFactor),
                    RMin(x.o.initialRelaxation, RAbs(x.o.aitkenFactor)))
          ELSE RMul(RNeg(x.o.aitkenFactor), RDiv(nominator, denominator))
  IN  IF x.o.iterationCounter # 0 /\ denominator = Num(0) /\ trap
        THEN AitkenFail(x, "FloatingPointException")
        ELSE [o |-> [x.o EXCEPT !.aitkenFactor = aitkenFactor,
                                !.residuals = residuals,
                                !.iterationCounter = @ + 1],
              data |-> Relax(x.data, aitkenFactor)]

\* AitkenAcceleration::iterationsConverged
AitkenIterationsConverged(x) ==
  [x EXCEPT !.o.iterationCounter = 0,
            !.o.residuals = VConstant(Len(@), Sentinel)]

\* Faulty variant of setDesignSpecification: an all-zero q is accepted.
AitkenSetDesignSpecification_ZeroAllowed(x, q) ==
  IF \A i \in DOMAIN q : q[i] = Num(0)
    THEN [x EXCEPT !.o.designSpecification = q]
    ELSE AitkenFail([x EXCEPT !.o.designSpecification = q], "Unsupported")

\* AitkenAcceleration::setDesignSpecification
AitkenSetDesignSpecification(x, q) ==
  AitkenFail([x EXCEPT !.o.designSpecification = q], "Unsupported")

\* ------------------------------------- AitkenAcceleration, on its own
\* The data maps an acceleration is given: each datum holds one value, and
\* its history has no column yet or one column of zeros (setupDataMatrices).
AitkenData(ids) ==
  [ids -> {[values |-> <<Num(v)>>, oldValues |-> h] :
             v \in 0 .. MaxValue, h \in {<<>>, <<<<Num(0)>>>>}}]

\* The IDs of the data map and the accelerated data IDs (one or two); the
\* first accelerated ID may be missing from the map.
AitkenConfigs ==
  {<<{1}, <<1>>>>, <<{1}, <<2>>>>, <<{1, 2}, <<1>>>>, <<{1, 2}, <<2>>>>,
   <<{1, 2}, <<1, 2>>>>}

InitialRelaxations == {Num(0), Rat(1, 2), Num(1), Rat(3, 2)}

Called(name, pre) == [call |-> name, pre |-> pre]

InitAitken ==
  /\ cfg = CHOOSE c \in Configurations : c.acceleration.kind = "Aitken"
  /\ scheme = [p \in Participants |-> SchemeOf(cfg, p)]
  /\ acc = [p \in Participants |-> NewAcceleration]
  /\ chan = [p \in Participants |-> <<>>]
  /\ hist = [p \in Participants |->
               [call |-> "construct", entry |-> NewScheme,
                measured |-> <<TRUE, TRUE, FALSE>>, ops |-> <<>>,
                fine |-> 0]]
  /\ \E k \in AitkenConfigs, r \in InitialRelaxations :
       \E data \in AitkenData(k[1]) :
         LET x == Obj(AitkenAcceleration(r, k[2]), data)
         IN  aitken = [obj |-> x, last |-> Called("construct", x), calls |-> 0]
  /\ m2n = NoM2N

AitkenCall(name, x) ==
  /\ aitken' = [aitken EXCEPT !.obj = x, !.last = Called(name, aitken.obj)]
  /\ UNCHANGED <<cfg, scheme, acc, chan, hist, m2n>>

AitkenInitializeCall ==
  /\ aitken.obj.o.pc = "constructed"
  /\ AitkenCall("initialize", AitkenInitialize(aitken.obj))

\* The scheme calls one of performAcceleration and iterationsConverged per
\* iteration of the solver.
PerformAccelerationCall ==
  /\ aitken.obj.o.pc = "initialized"
  /\ aitken.last.call \in {"initialize", "iterate"}
  /\ aitken.calls < MaxCalls
  /\ \E trap \in BOOLEAN :
       /\ aitken' = [obj |-> AitkenPerformAcceleration(aitken.obj, trap),
                     last |-> Called("performAcceleration", aitken.obj),
                     calls |-> aitken.calls + 1]
       /\ UNCHANGED <<cfg, scheme, acc, chan, hist, m2n>>

IterationsConvergedCall ==
  /\ aitken.obj.o.pc = "initialized"
  /\ aitken.last.call \in {"initialize", "iterate"}
  /\ aitken.calls < MaxCalls
  /\ aitken' = [obj |-> AitkenIterationsConverged(aitken.obj),
                last |-> Called("iterationsConverged", aitken.obj),
                calls |-> aitken.calls + 1]
  /\ UNCHANGED <<cfg, scheme, acc, chan, hist, m2n>>

SetDesignSpecificationCall ==
  /\ aitken.obj.o.pc = "initialized"
  /\ \E q \in [DOMAIN aitken.obj.o.designSpecification -> {Num(v) : v \in 0 .. MaxValue}] :
       AitkenCall("setDesignSpecification", AitkenSetDesignSpecification(aitken.obj, q))

\* Between two calls of the acceleration the scheme stores the values as
\* oldValues.col(0) and the solver computes new values.
SolverIteration ==
  /\ aitken.obj.o.pc = "initialized"
  /\ aitken.last.call \in {"performAcceleration", "iterationsConverged"}
  /\ \E new \in [DOMAIN aitken.obj.data -> 0 .. MaxValue] :
       AitkenCall("iterate",
                  [aitken.obj EXCEPT !.data =
                     [id \in DOMAIN @ |->
                        [values |-> <<Num(new[id])>>,
                         oldValues |-> <<@[id].values>>]]])

NextAitken ==
  \/ AitkenInitializeCall
  \/ PerformAccelerationCall
  \/ IterationsConvergedCall
  \/ SetDesignSpecificationCall
  \/ SolverIteration

SpecAitken == InitAitken /\ [][NextAitken]_vars

\* ------------------------------------------- the initialization handshake
\* The solver of p writes its initial data: a value into one of its send data,
\* while the scheme requires writeInitialData of it.
WriteData(p) ==
  /\ scheme[p].pc = "idle"
  /\ isActionRequired(scheme[p], "writeInitialData")
  /\ \E i \in DOMAIN scheme[p].sendValues, v \in 0 .. MaxValue :
       /\ scheme[p].sendValues[i] # v
       /\ scheme' = [scheme EXCEPT ![p].sendValues[i] = v]
  /\ UNCHANGED <<cfg, acc, chan, hist, aitken, m2n>>

\* Runs of one or two time steps in which the second participant initializes
\* data.
InitData ==
  /\ Init
  /\ \E i \in DOMAIN cfg.data21 : cfg.data21[i]
  /\ cfg.maxTime = UNDEFINED_TIME /\ cfg.maxTimesteps <= 2

NextData ==
  \E p \in Participants :
    \/ WriteData(p)
    \/ Initialize(p)
    \/ InitializeData(p)
    \/ InitializeDataReceiveData(p)
    \/ InitializeDataReceiveDt(p)
    \/ InitializeDataReceiveData2(p)
    \/ MarkActionFulfilled(p)
    \/ Advance(p)
    \/ AdvanceExplicitReceiveDt(p)
    \/ AdvanceExplicitReceiveData(p)
    \/ AdvanceReceiveConvergence(p)
    \/ AdvanceReceiveCoarse(p)
    \/ AdvanceFirstReceiveData(p)
    \/ AdvanceSecondReceiveDt(p)
    \/ AdvanceSecondReceiveData(p)

SpecData == InitData /\ [][NextData]_vars

\* ------------------------------------------------------ reading the history
\* p has returned from the call `name` and has made no other call since.
Returned(p, name) == hist[p].call = name /\ scheme[p].pc = "idle"

\* p's current or last call is an advance() that passed its entry checks with
\* thisTimestepRemainder == 0.
FullAdvance(p) ==
  /\ hist[p].call = "advance"
  /\ hist[p].entry.actions = {}
  /\ ~ hist[p].entry.hasToSendInitData /\ ~ hist[p].entry.hasToReceiveInitData
  /\ getThisTimestepRemainder(hist[p].entry) = 0

ImplicitAdvance(p) == cfg.couplingMode = "Implicit" /\ FullAdvance(p)

Sends(ops)    == SelectSeq(ops, LAMBDA o : o[1] = "send")
Receives(ops) == SelectSeq(ops, LAMBDA o : o[1] = "receive")

RECURSIVE Times(_, _)
Times(o, n) == IF n = 0 THEN <<>> ELSE <<o>> \o Times(o, n - 1)

NumSendData(p) == Cardinality(DOMAIN getSendData(cfg, p))

IsPrefix(a, b) == Len(a) <= Len(b) /\ a = SubSeq(b, 1, Len(a))

\* The second participant's sends and the first participant's receives of one
\* implicit iteration.
ControlThenData(dir, n) ==
  <<<<dir, "convergence">>, <<dir, "isCoarseModelOptimizationActive">>>>
    \o Times(<<dir, "data">>, n)

\* ------------------------------------------------------------------ claims
\* C1: in every implicit iteration the second participant sends convergence,
\* then isCoarseModelOptimizationActive, then the data, and the first
\* participant receives them in that order: the booleans are on the channel
\* before the data they gate.
C1_ControlBooleansBeforeData ==
  /\ ImplicitAdvance(Second) =>
       Sends(hist[Second].ops) = ControlThenData("send", NumSendData(Second))
  /\ ImplicitAdvance(First) =>
       /\ IsPrefix(Receives(hist[First].ops),
                   ControlThenData("receive", NumReceiveData(First)))
       /\ scheme[First].pc = "idle" =>
            Receives(hist[First].ops) =
              ControlThenData("receive", NumReceiveData(First))
       /\ (scheme[First].pc = "advance_receiveConvergence" /\ chan[First] # <<>>) =>
            /\ Len(chan[First]) = 2 + NumReceiveData(First)
            /\ chan[First][1].type = "bool" /\ chan[First][2].type = "bool"
            /\ \A i \in 3 .. Len(chan[First]) : chan[First][i].type = "array"

\* C1 witness: the first participant has returned from an implicit iteration in
\* which it read the booleans and the data the second participant sent.
C1_Witness ==
  /\ ImplicitAdvance(First) /\ ImplicitAdvance(Second)
  /\ scheme[First].pc = "idle"
  /\ ~ scheme[First].convergence
  /\ Len(Receives(hist[First].ops)) = 3


\* What the first participant's advance() calls on the M2N in one implicit
\* iteration, and what the second participant's advance() calls.
FirstRoundTrip ==
  <<<<"send", "dt">>>> \o Times(<<"send", "data">>, NumSendData(First))
    \o ControlThenData("receive", NumReceiveData(First))

SecondRoundTrip ==
  ControlThenData("send", NumSendData(Second))
    \o <<<<"receive", "dt">>>> \o Times(<<"receive", "data">>, NumReceiveData(Second))

\* C2: one implicit iteration is exactly one round trip: the first participant's
\* advance() sends (dt, data) and receives (convergence, coarse flag, data) and
\* makes no other M2N call; the second participant's advance() sends exactly
\* (convergence, coarse flag, data), and all it receives is the (dt, data) that
\* opens the next iteration; nothing is left on the channel to the first
\* participant when its advance() returns.
C2_OneRoundTripPerIteration ==
  /\ ImplicitAdvance(First) =>
       /\ IsPrefix(hist[First].ops, FirstRoundTrip)
       /\ scheme[First].pc = "idle" =>
            hist[First].ops = FirstRoundTrip /\ chan[First] = <<>>
  /\ ImplicitAdvance(Second) =>
       /\ IsPrefix(hist[Second].ops, SecondRoundTrip)
       /\ Len(hist[Second].ops) >= 2 + NumSendData(Second)
       /\ scheme[Second].pc = "idle" =>
            /\ chan[Second] = <<>>
            /\ Len(hist[Second].ops) \in {2 + NumSendData(Second), Len(SecondRoundTrip)}

\* C2 witness: a paired implicit iteration has ended on both sides, the first
\* participant after its full round trip, the second after its three sends.
C2_Witness ==
  /\ ImplicitAdvance(First) /\ ImplicitAdvance(Second)
  /\ scheme[First].pc = "idle" /\ scheme[Second].pc = "idle"
  /\ hist[First].ops = FirstRoundTrip /\ Len(FirstRoundTrip) = 5
  /\ hist[Second].ops = ControlThenData("send", NumSendData(Second))
  /\ chan[First] = <<>> /\ chan[Second] = <<>>

\* C3 as stated: when advance() returns with isCouplingTimestepComplete, the
\* step budget is exhausted or thisTimestepRemainder is 0 (on return) and the
\* step counter is one larger than at entry.
C3_Original ==
  \A p \in Participants :
    (Returned(p, "advance") /\ scheme[p].isCouplingTimestepComplete) =>
      \/ ~ isCouplingOngoing(scheme[p])
      \/ /\ getThisTimestepRemainder(scheme[p]) = 0
         /\ scheme[p].timesteps = hist[p].entry.timesteps + 1

\* C3 amended: when advance() returns with isCouplingTimestepComplete, the step
\* budget is exhausted or thisTimestepRemainder was 0 at entry and the step
\* counter is one larger than at entry; on return the computed part of the time
\* step is 0 again, so the remainder is the whole time step length.
C3_StepCompleteMeansOneStep ==
  \A p \in Participants :
    (Returned(p, "advance") /\ scheme[p].isCouplingTimestepComplete) =>
      /\ \/ ~ isCouplingOngoing(scheme[p])
         \/ /\ getThisTimestepRemainder(hist[p].entry) = 0
            /\ scheme[p].timesteps = hist[p].entry.timesteps + 1
      /\ scheme[p].computedTimestepPart = 0
      /\ getThisTimestepRemainder(scheme[p]) = scheme[p].timestepLength

\* C3 witness: an advance() has completed a time step with budget left.
C3_Witness ==
  \E p \in Participants :
    /\ Returned(p, "advance") /\ scheme[p].isCouplingTimestepComplete
    /\ isCouplingOngoing(scheme[p])
    /\ scheme[p].timesteps = hist[p].entry.timesteps + 1

\* The second participant's advance() measures fine-model convergence with the
\* iteration limit reached.
LimitReached ==
  /\ ImplicitAdvance(Second)
  /\ ~ hist[Second].entry.isCoarseModelOptimizationActive
  /\ hist[Second].entry.iterations >= cfg.maxIterations

\* C4: when the second participant's advance() finds maxIterations reached
\* while measuring fine-model convergence, convergence is true whatever the
\* measures say, the time step is completed, and iterationsConverged has reset
\* the acceleration: its iteration counter is 0 and its residual the sentinel.
C4_MaxIterationsForcesConvergence ==
  LimitReached =>
    /\ scheme[Second].convergence
    /\ scheme[Second].isCouplingTimestepComplete
    /\ scheme[Second].timesteps = hist[Second].entry.timesteps + 1
    /\ hasAcceleration =>
         acc[Second].iterationCounter = 0 /\ acc[Second].residuals = "sentinel"
    /\ scheme[Second].pc = "idle" => scheme[Second].iterations = 1

\* C4 witness: the limit was reached in the second iteration of a step, after an
\* accelerated first one, and the measure reported non-convergence.
C4_Witness ==
  /\ LimitReached
  /\ ~ hist[Second].measured[1]
  /\ hist[Second].entry.iterations = 2
  /\ cfg.acceleration.kind = "Aitken"
  /\ scheme[Second].pc = "idle"

\* C5: an implicit advance() with thisTimestepRemainder == 0 returns with
\* readIterationCheckpoint required exactly when it ended without convergence,
\* on the first and on the second participant.
C5_ReadCheckpointIffNotConverged ==
  \A p \in Participants :
    (ImplicitAdvance(p) /\ scheme[p].pc = "idle") =>
      (isActionRequired(scheme[p], "readIterationCheckpoint") <=> ~ scheme[p].convergence)

\* C5 witness: the second participant has returned from a non-converged
\* iteration with readIterationCheckpoint required, while the first participant,
\* which had required it after the same iteration, is in its next iteration.
C5_Witness ==
  /\ ImplicitAdvance(Second) /\ scheme[Second].pc = "idle"
  /\ ~ scheme[Second].convergence
  /\ isActionRequired(scheme[Second], "readIterationCheckpoint")
  /\ ImplicitAdvance(First) /\ hist[First].entry.iterations = 2


\* C6: after a non-converged iteration readIterationCheckpoint is required; an
\* advance() entered with no action outstanding does not fail on required
\* actions; an advance() entered with an action outstanding fails in
\* checkCompletenessRequiredActions with no M2N call made and the scheme as it
\* was at entry.
C6_CheckpointCycle ==
  \A p \in Participants :
    hist[p].call = "advance" =>
      /\ (ImplicitAdvance(p) /\ scheme[p].pc = "idle" /\ ~ scheme[p].convergence) =>
           isActionRequired(scheme[p], "readIterationCheckpoint")
      /\ hist[p].entry.actions = {} =>
           scheme[p].error # "UnfulfilledRequiredActions"
      /\ hist[p].entry.actions # {} =>
           /\ scheme[p] = [hist[p].entry EXCEPT !.pc = "failed",
                                                !.error = "UnfulfilledRequiredActions"]
           /\ hist[p].ops = <<>>

\* C6 witness: after a non-converged iteration the first participant fulfilled
\* its actions and is in its next advance(); the second participant called
\* advance() with readIterationCheckpoint outstanding and failed.
C6_Witness ==
  /\ ImplicitAdvance(First) /\ hist[First].entry.iterations = 2
  /\ scheme[First].error = "none"
  /\ hist[Second].call = "advance"
  /\ hist[Second].entry.actions = {"readIterationCheckpoint"}
  /\ scheme[Second].error = "UnfulfilledRequiredActions"

HasInitialize(data) == \E i \in DOMAIN data : data[i]

ConfigurationErrors ==
  {"NoSendData", "AccelerationDataNotContained", "AccelerationOnFirstParticipant",
   "OnlySecondCanInitialize", "OnlyFirstCanReceiveInitialData"}

\* C8: initialize() fails with a configuration error on the first participant
\* if a send datum has initialize set, and on the second participant if a
\* receive datum has it; otherwise hasToSendInitData (hasToReceiveInitData) is
\* true after initialize() exactly when some send (receive) datum has it.
C8_InitializeFlagsBySide ==
  \A p \in Participants :
    hist[p].call = "initialize" =>
      /\ ((doesFirstStep(p) /\ HasInitialize(getSendData(cfg, p)))
          \/ (~ doesFirstStep(p) /\ HasInitialize(getReceiveData(cfg, p)))) =>
           scheme[p].pc = "failed" /\ scheme[p].error \in ConfigurationErrors
      /\ scheme[p].pc # "failed" =>
           /\ scheme[p].hasToSendInitData = HasInitialize(getSendData(cfg, p))
           /\ scheme[p].hasToReceiveInitData = HasInitialize(getReceiveData(cfg, p))

\* C8 witness: data sent by the first participant are flagged; both
\* participants have failed in initialize(), each in its own loop.
C8_Witness ==
  /\ hist[First].call = "initialize" /\ hist[Second].call = "initialize"
  /\ scheme[First].error = "OnlySecondCanInitialize"
  /\ scheme[Second].error = "OnlyFirstCanReceiveInitialData"

\* C9: in Implicit mode initialize() fails when there is no send datum and
\* otherwise returns with writeIterationCheckpoint required, on both
\* participants; in Explicit mode it never requires writeIterationCheckpoint.
C9_ImplicitInitialize ==
  \A p \in Participants :
    hist[p].call = "initialize" =>
      /\ (cfg.couplingMode = "Implicit" /\ DOMAIN getSendData(cfg, p) = {}) =>
           scheme[p].pc = "failed" /\ scheme[p].error = "NoSendData"
      /\ (cfg.couplingMode = "Implicit" /\ scheme[p].pc = "idle") =>
           isActionRequired(scheme[p], "writeIterationCheckpoint")
      /\ cfg.couplingMode = "Explicit" =>
           ~ isActionRequired(scheme[p], "writeIterationCheckpoint")

\* C9 witness: both participants have returned from initialize() in Implicit
\* mode and both require writeIterationCheckpoint.
C9_Witness ==
  /\ cfg.couplingMode = "Implicit"
  /\ \A p \in Participants :
       Returned(p, "initialize")
         /\ isActionRequired(scheme[p], "writeIterationCheckpoint")

NoInitializedData ==
  ~ HasInitialize(cfg.data12) /\ ~ HasInitialize(cfg.data21)

InitialReceive(p) ==
  <<<<"receive", "dt">>>> \o Times(<<"receive", "data">>, NumReceiveData(p))

\* C10 as stated: if no datum has initialize set, the first participant
\* receives dt and data inside initialize().
C10_Original ==
  (NoInitializedData /\ Returned(First, "initialize")) =>
    /\ Receives(hist[First].ops) # <<>>
    /\ scheme[First].hasDataBeenExchanged

\* C10 amended: if no datum has initialize set, the second participant's
\* initial receive (dt and data) happens inside its initialize(); the first
\* participant receives nothing in initialize(). If the second participant
\* initializes data, its initialize() receives nothing either.
C10_SecondReceivesInInitialize ==
  /\ (NoInitializedData /\ Returned(Second, "initialize")) =>
       /\ hist[Second].ops = InitialReceive(Second)
       /\ scheme[Second].hasDataBeenExchanged
  /\ (hist[Second].call = "initialize" /\ HasInitialize(cfg.data21)) =>
       hist[Second].ops = <<>>
  /\ hist[First].call = "initialize" =>
       hist[First].ops = <<>> /\ ~ scheme[First].hasDataBeenExchanged

\* C10 witness: no datum is flagged and the second participant has returned
\* from initialize() with the first participant's dt and data.
C10_Witness ==
  /\ NoInitializedData /\ Returned(Second, "initialize")
  /\ hist[Second].ops = <<<<"receive", "dt">>, <<"receive", "data">>>>
  /\ scheme[Second].hasDataBeenExchanged


\* One of the initialization flags was set when p entered its current call.
InitFlagAtEntry(p) ==
  hist[p].entry.hasToSendInitData \/ hist[p].entry.hasToReceiveInitData

\* C11: initializeData() called after initialize() with neither flag set
\* returns with the scheme unchanged and no M2N call; with hasToSendInitData
\* set and writeInitialData outstanding it fails; once it has returned both
\* flags are false; advance() fails, before any M2N call, whenever a flag is
\* still set, and never complains of a missing initializeData() otherwise.
C11_InitializeDataRequired ==
  \A p \in Participants :
    /\ (hist[p].call = "initializeData" /\ hist[p].entry.isInitialized) =>
         /\ ~ InitFlagAtEntry(p) =>
              scheme[p] = hist[p].entry /\ hist[p].ops = <<>>
         /\ (hist[p].entry.hasToSendInitData
               /\ isActionRequired(hist[p].entry, "writeInitialData")) =>
              /\ scheme[p].pc = "failed" /\ scheme[p].error = "InitialDataNotWritten"
              /\ hist[p].ops = <<>>
         /\ scheme[p].pc = "idle" =>
              ~ scheme[p].hasToSendInitData /\ ~ scheme[p].hasToReceiveInitData
    /\ hist[p].call = "advance" =>
         /\ InitFlagAtEntry(p) =>
              /\ scheme[p].pc = "failed"
              /\ scheme[p].error \in {"UnfulfilledRequiredActions",
                                      "InitializeDataNotCalled"}
              /\ hist[p].ops = <<>>
         /\ ~ InitFlagAtEntry(p) => scheme[p].error # "InitializeDataNotCalled"

\* C11 witness: the second participant called initializeData() without having
\* written its initial data and failed; the first participant, which has
\* initial data to receive, called advance() without initializeData() and failed.
C11_Witness ==
  /\ hist[Second].call = "initializeData"
  /\ scheme[Second].error = "InitialDataNotWritten"
  /\ hist[First].call = "advance" /\ hist[First].entry.hasToReceiveInitData
  /\ scheme[First].error = "InitializeDataNotCalled"


\* C12: in a configuration where the second participant initializes data,
\* when the first participant's initializeData() has returned its receive
\* values are the values the second participant wrote before its
\* initializeData(), hasDataBeenExchanged is true on the first participant and
\* both flags are false there; when the second participant's initializeData()
\* has returned both flags are false on it as well.
C12_InitializationHandshake ==
  /\ (Returned(First, "initializeData") /\ hist[First].entry.hasToReceiveInitData) =>
       /\ scheme[First].receiveValues = scheme[Second].sendValues
       /\ scheme[First].hasDataBeenExchanged
       /\ ~ scheme[First].hasToSendInitData /\ ~ scheme[First].hasToReceiveInitData
  /\ (Returned(Second, "initializeData") /\ hist[Second].entry.hasToSendInitData) =>
       /\ ~ scheme[Second].hasToSendInitData /\ ~ scheme[Second].hasToReceiveInitData
       /\ hist[First].call = "advance" => ~ InitFlagAtEntry(First)

\* C12 witness: the second participant wrote a non-zero value and the first
\* participant has returned from initializeData() holding it.
C12_Witness ==
  /\ Returned(First, "initializeData") /\ hist[First].entry.hasToReceiveInitData
  /\ scheme[First].receiveValues = <<MaxValue>>
  /\ scheme[First].hasDataBeenExchanged


\* The M2N calls of sendDt(); sendData() and of receiveAndSetDt(); receiveData()
\* on participant p.
ExplicitSends(p) ==
  (IF participantSetsDt(p) THEN <<<<"send", "dt">>>> ELSE <<>>)
    \o Times(<<"send", "data">>, NumSendData(p))

ExplicitReceives(p) ==
  (IF participantReceivesDt(p) THEN <<<<"receive", "dt">>>> ELSE <<>>)
    \o Times(<<"receive", "data">>, NumReceiveData(p))

ExplicitAdvance(p) == cfg.couplingMode = "Explicit" /\ FullAdvance(p)

\* C13 as stated: on both participants an explicit advance() with
\* thisTimestepRemainder == 0 completes the step, increments the counter, sends,
\* and has received (hasDataBeenExchanged) exactly when the coupling is still
\* ongoing after the increment (looked at where there are data to receive).
C13_Original ==
  \A p \in Participants :
    (ExplicitAdvance(p) /\ scheme[p].pc = "idle" /\ NumReceiveData(p) > 0) =>
      /\ scheme[p].isCouplingTimestepComplete
      /\ scheme[p].timesteps = hist[p].entry.timesteps + 1
      /\ Sends(hist[p].ops) = ExplicitSends(p)
      /\ scheme[p].hasDataBeenExchanged <=> isCouplingOngoing(scheme[p])

\* C13 amended: an explicit advance() with thisTimestepRemainder == 0 marks the
\* step complete, increments the step counter by one, sends dt and data and
\* then receives dt and data, setting hasDataBeenExchanged, exactly when the
\* coupling is still ongoing after the increment or the participant is the
\* first one: the first participant receives in its last step too.
C13_ExplicitPath ==
  \A p \in Participants :
    ExplicitAdvance(p) =>
      /\ scheme[p].isCouplingTimestepComplete
      /\ scheme[p].timesteps = hist[p].entry.timesteps + 1
      /\ IsPrefix(ExplicitSends(p), hist[p].ops)
      /\ scheme[p].pc = "idle" =>
           LET receives == isCouplingOngoing(scheme[p]) \/ doesFirstStep(p)
           IN  /\ hist[p].ops =
                    ExplicitSends(p) \o (IF receives THEN ExplicitReceives(p) ELSE <<>>)
               /\ scheme[p].hasDataBeenExchanged = receives

\* C13 witness: both participants have returned from the advance() of the last
\* explicit step; the first has received data, the second has not.
C13_Witness ==
  /\ \A p \in Participants :
       /\ ExplicitAdvance(p) /\ scheme[p].pc = "idle"
       /\ ~ isCouplingOngoing(scheme[p])
  /\ scheme[First].hasDataBeenExchanged
  /\ Receives(hist[First].ops) # <<>>
  /\ ~ scheme[Second].hasDataBeenExchanged


\* C14 as stated: the constructor accepts exactly the configurations whose
\* coupling mode is defined and in which maxIterations == 1 iff the mode is
\* Explicit.
C14_Original ==
  \A p \in Participants :
    hist[p].call = "construct" =>
      (scheme[p].pc = "constructed" <=>
         /\ cfg.couplingMode # "Undefined"
         /\ (cfg.maxIterations = 1 <=> cfg.couplingMode = "Explicit"))

\* C14 amended: the constructor rejects, by assertion, the mode Undefined and
\* an explicit scheme with maxIterations # 1; it accepts an implicit scheme
\* with any maxIterations, 1 included.
C14_ConstructorAccepts ==
  \A p \in Participants :
    hist[p].call = "construct" =>
      /\ scheme[p].pc = "constructed" <=>
           /\ cfg.couplingMode # "Undefined"
           /\ (cfg.couplingMode = "Explicit" => cfg.maxIterations = 1)
      /\ scheme[p].pc # "constructed" =>
           scheme[p].pc = "failed" /\ scheme[p].error = "AssertionFailed"

\* C14 witness: an implicit scheme with maxIterations == 1 has been constructed
\* on both participants.
C14_Witness ==
  /\ cfg.couplingMode = "Implicit" /\ cfg.maxIterations = 1
  /\ \A p \in Participants :
       hist[p].call = "construct" /\ scheme[p].pc = "constructed"


\* ------------------------------------------------------- C15: stagnation
\* performAcceleration has been called with a residual equal to the stored
\* one, after at least one iteration of the step.
Stagnation ==
  /\ aitken.last.call = "performAcceleration"
  /\ aitken.last.pre.o.iterationCounter > 0
  /\ VSub(Concatenation(aitken.last.pre.data, aitken.last.pre.o.dataIDs, "values"),
          Concatenation(aitken.last.pre.data, aitken.last.pre.o.dataIDs, "oldValues"))
       = aitken.last.pre.o.residuals

\* C15 as stated: performAcceleration called with iterationCounter > 0 and a
\* residual equal to the stored one ends in an error; no relaxation factor is
\* computed and no relaxed value is written.
C15_Original ==
  Stagnation =>
    /\ aitken.obj.o.pc = "failed"
    /\ aitken.obj.data = aitken.last.pre.data
    /\ aitken.obj.o.aitkenFactor = aitken.last.pre.o.aitkenFactor

\* ------------------------------------------- C16: setDesignSpecification
\* The design specification the last call of setDesignSpecification was given.
GivenDesignSpecification == aitken.obj.o.designSpecification

ZeroDesignSpecification ==
  \A i \in DOMAIN GivenDesignSpecification : GivenDesignSpecification[i] = Num(0)

Unsupported == aitken.obj.o.pc = "failed" /\ aitken.obj.o.error = "Unsupported"

\* C16 as stated: setDesignSpecification fails with Unsupported when q is
\* non-zero and does not fail when q is all zeros.
C16_Original ==
  aitken.last.call = "setDesignSpecification" =>
    (Unsupported <=> ~ ZeroDesignSpecification)

\* C16 (amended): setDesignSpecification stores q and then fails with
\* Unsupported for every q, the all-zero q included; nothing else of the
\* acceleration or of the data changes.
C16_SetDesignSpecificationAlwaysFails ==
  aitken.last.call = "setDesignSpecification" =>
    /\ Unsupported
    /\ aitken.obj.data = aitken.last.pre.data
    /\ \E q \in [DOMAIN aitken.last.pre.o.designSpecification ->
                    {Num(v) : v \in 0 .. MaxValue}] :
         aitken.obj.o = [aitken.last.pre.o EXCEPT !.pc = "failed",
                                                  !.error = "Unsupported",
                                                  !.designSpecification = q]

\* C16 witness: setDesignSpecification was called with an all-zero q on an
\* initialized acceleration, and the call failed.
C16_Witness ==
  /\ aitken.last.call = "setDesignSpecification"
  /\ aitken.last.pre.o.pc = "initialized"
  /\ ZeroDesignSpecification
  /\ Unsupported

\* ------------------------------------------------------------------- M2N
\* Two participants, the acceptor and the requester of the master connection,
\* each a set of ranks; every rank holds its own M2N object and makes the same
\* sequence of M2N calls: the master connection, the transfers, closeConnection.
M2NSides == {"acceptor", "requester"}

Remote(s) == IF s = "acceptor" THEN "requester" ELSE "acceptor"

MeshIDs == {1, 2}

AllRanks == 0 .. MaxSlaves

RanksOf(m, s) == 0 .. (m.size[s] - 1)

\* utils::MasterSlave::isSlave(), isMaster() on rank r
isSlave(m, r)  == m.parallel /\ r > 0
isMaster(m, r) == m.parallel /\ r = 0

\* A call is a sequence of primitive operations on the collaborators of M2N.
Prim(p, item, mesh, val) == [prim |-> p, item |-> item, mesh |-> mesh, val |-> val]

\* Event e(name, precice::syncMode)
Event == Prim("event", "none", 0, 0)

Return(name) == Prim("return", name, 0, 0)

\* utils::MasterSlave::broadcast(variable)
Broadcast(variable) == Prim("broadcast", variable, 0, 0)

\* _masterCom->send(item, 0), _masterCom->receive(item, 0)
MasterSend(item, val) == Prim("master.send", item, 0, val)
MasterReceive(item)   == Prim("master.receive", item, 0, 0)

\* M2N::acceptMasterConnection
acceptMasterConnection(slave) ==
  <<Event>>
  \o (IF ~ slave
        THEN <<Prim("handshake", "accept", 0, 0), Prim("assign", "status", 0, 0)>>
        ELSE <<>>)
  \o <<Broadcast("status"), Return("acceptMasterConnection")>>

\* M2N::requestMasterConnection
requestMasterConnection(slave) ==
  <<Event>>
  \o (IF ~ slave
        THEN <<Prim("handshake", "request", 0, 0), Prim("assign", "status", 0, 0)>>
        ELSE <<>>)
  \o <<Broadcast("status"), Return("requestMasterConnection")>>

\* Faulty variant of closeConnection: the status is not broadcast.
closeConnection_NoBroadcast(slave, connected) ==
  (IF ~ slave /\ connected THEN <<Prim("close", "status", 0, 0)>> ELSE <<>>)
  \o <<Return("closeConnection")>>

\* M2N::closeConnection; connected is _masterCom->isConnected()
closeConnection(slave, connected) ==
  (IF ~ slave /\ connected THEN <<Prim("close", "status", 0, 0)>> ELSE <<>>)
  \o <<Broadcast("status"), Return("closeConnection")>>

\* Faulty variant of send: the array goes over the master channel in both modes.
send_MasterChannelOnly(slave, master, sync, meshID) ==
  <<MasterSend("array", meshID), Return("send")>>

\* Faulty variant of send: the sending master does not wait for the ack of the
\* receiving master.
send_NoAckReceive(slave, master, sync, meshID) ==
  IF slave \/ master
    THEN (IF sync /\ ~ slave
            THEN <<MasterSend("ack", 1), MasterSend("ack", 1)>>
            ELSE <<>>)
         \o <<Event, Prim("dist.send", "array", meshID, 0), Return("send")>>
    ELSE <<MasterSend("array", meshID), Return("send")>>

\* M2N::send(itemsToSend, size, meshID, valueDimension)
send(slave, master, sync, meshID) ==
  IF slave \/ master
    THEN (IF sync /\ ~ slave
            THEN <<MasterSend("ack", 1), MasterReceive("ack"), MasterSend("ack", 1)>>
            ELSE <<>>)
         \o <<Event, Prim("dist.send", "array", meshID, 0), Return("send")>>
    ELSE <<MasterSend("array", meshID), Return("send")>>

\* M2N::send(bool), M2N::send(double)
sendItem(slave, kind, itemToSend) ==
  (IF ~ slave THEN <<MasterSend(kind, itemToSend)>> ELSE <<>>)
  \o <<Return("send")>>

\* M2N::receive(itemsToReceive, size, meshID, valueDimension)
receive(slave, master, sync, meshID) ==
  IF slave \/ master
    THEN (IF sync /\ ~ slave
            THEN <<MasterReceive("ack"), MasterSend("ack", 1), MasterReceive("ack")>>
            ELSE <<>>)
         \o <<Event, Prim("dist.receive", "array", meshID, 0), Return("receive")>>
    ELSE <<MasterReceive("array"), Return("receive")>>

\* M2N::receive(bool &), M2N::receive(double &)
receiveItem(slave, kind) ==
  (IF ~ slave THEN <<MasterReceive(kind)>> ELSE <<>>)
  \o <<Broadcast("item"), Return("receive")>>

\* A bool is sent as 0 or 1, a double as it is.
ItemOf(kind, payload) == IF kind = "bool" /\ payload > 0 THEN 1 ELSE payload

\* The calls of a run: 1 is the master connection, the last is closeConnection,
\* those between are the transfers of the script, sent by the ranks of m.from.
NumCalls(m) == Len(m.script) + 2

PlanOf(m, s, r, k) ==
  IF k = 1
    THEN (IF s = "acceptor" THEN acceptMasterConnection(isSlave(m, r))
                            ELSE requestMasterConnection(isSlave(m, r)))
  ELSE IF k = NumCalls(m)
    THEN closeConnection(isSlave(m, r), m.rank[s][r].masterCom)
  ELSE LET op == m.script[k - 1]
       IN  IF op.kind = "array"
             THEN (IF s = m.from
                     THEN send(isSlave(m, r), isMaster(m, r), m.syncMode, op.mesh)
                     ELSE receive(isSlave(m, r), isMaster(m, r), m.syncMode, op.mesh))
             ELSE (IF s = m.from
                     THEN sendItem(isSlave(m, r), op.kind, ItemOf(op.kind, m.payload))
                     ELSE receiveItem(isSlave(m, r), op.kind))

\* What a rank has done: the call, the operation, the item, the mesh, the
\* value, and the _isMasterConnected of the rank after it.
Ev(k, what, item, mesh, val, status) ==
  [call |-> k, what |-> what, item |-> item, mesh |-> mesh, val |-> val,
   status |-> status]

Bit(b) == IF b THEN 1 ELSE 0

\* The rank starts its next call; without a master connection it makes no
\* transfer and goes on to closeConnection.
Load(m, s, r) ==
  LET rk == m.rank[s][r]
      k  == IF rk.next > 1 /\ rk.next < NumCalls(m) /\ ~ rk.isMasterConnected
              THEN NumCalls(m) ELSE rk.next
  IN  [m EXCEPT !.rank[s][r] =
         [rk EXCEPT !.plan = PlanOf(m, s, r, k), !.call = k, !.next = k + 1]]

\* The distributed exchange of a mesh: one message from every rank of the
\* sender to every rank of the receiver.
DistKeys == M2NSides \X MeshIDs \X AllRanks \X AllRanks

DistSend(m, s, r, mesh) ==
  [key \in DistKeys |->
     IF key[1] = Remote(s) /\ key[2] = mesh /\ key[3] = r
        /\ key[4] \in RanksOf(m, Remote(s))
       THEN m.dist[key] + 1 ELSE m.dist[key]]

DistReady(m, s, r, mesh) ==
  \A q \in RanksOf(m, Remote(s)) : m.dist[<<s, mesh, q, r>>] > 0

DistReceive(m, s, r, mesh) ==
  [key \in DistKeys |->
     IF key[1] = s /\ key[2] = mesh /\ key[4] = r
        /\ key[3] \in RanksOf(m, Remote(s))
       THEN m.dist[key] - 1 ELSE m.dist[key]]

\* The first operation of the plan of rank r acts (it is able to).
Apply(m, s, r) ==
  LET rk  == m.rank[s][r]
      h   == Head(rk.plan)
      msg == IF h.prim = "master.receive" THEN Head(m.master[s])
                                          ELSE [item |-> h.item, val |-> h.val]
      \* the value of the variable a broadcast is about, after the broadcast
      heard == IF h.prim = "broadcast" /\ isSlave(m, r) THEN Head(m.bus[s][r])
               ELSE IF h.item = "status" THEN Bit(rk.isMasterConnected)
               ELSE rk.item
      val == CASE h.prim = "master.receive" -> msg.val
               [] h.prim = "broadcast" -> heard
               [] h.prim = "assign" -> Bit(rk.masterCom)
               [] h.prim = "return" -> rk.item
               [] OTHER -> h.val
      status == CASE h.prim = "assign" -> rk.masterCom
                  [] h.prim = "close" -> FALSE
                  [] h.prim = "broadcast" /\ h.item = "status" -> heard = 1
                  [] OTHER -> rk.isMasterConnected
      item == CASE h.prim = "master.receive" /\ msg.item # "ack" -> msg.val
                [] h.prim = "broadcast" /\ h.item = "item" -> heard
                [] OTHER -> rk.item
  IN  [m EXCEPT
         !.rank[s][r] =
            [rk EXCEPT !.plan = Tail(@),
                       !.isMasterConnected = status,
                       !.item = item,
                       !.masterCom = IF h.prim = "close" THEN FALSE ELSE @,
                       !.log = Append(@, Ev(rk.call, h.prim, msg.item, h.mesh, val,
                                            Bit(status)))],
         !.master =
            [t \in M2NSides |->
               IF h.prim = "master.send" /\ t = Remote(s) THEN Append(m.master[t], msg)
               ELSE IF h.prim = "master.receive" /\ t = s THEN Tail(m.master[t])
               ELSE m.master[t]],
         !.bus =
            [t \in M2NSides |-> [q \in AllRanks |->
               IF h.prim = "broadcast" /\ t = s /\ isMaster(m, r)
                  /\ q \in RanksOf(m, s) \ {0}
                 THEN Append(m.bus[t][q], heard)
               ELSE IF h.prim = "broadcast" /\ t = s /\ isSlave(m, r) /\ q = r
                 THEN Tail(m.bus[t][q])
               ELSE m.bus[t][q]]],
         !.dist = IF h.prim = "dist.send" THEN DistSend(m, s, r, h.mesh)
                  ELSE IF h.prim = "dist.receive" THEN DistReceive(m, s, r, h.mesh)
                  ELSE m.dist]

\* The operations a rank may have to wait in: a receive from the master
\* channel, the handshake of the master connection, the broadcast on a slave,
\* a receive from the distributed exchange, an Event that is a barrier.
Blocking(m, r, h) ==
  \/ h.prim \in {"master.receive", "handshake", "dist.receive"}
  \/ h.prim = "broadcast" /\ isSlave(m, r)
  \/ h.prim = "event" /\ m.syncMode /\ m.barrier

\* Rank r runs on to the next operation it may have to wait in. (The state
\* is bound as the element of a set, so that it is evaluated once.)
RECURSIVE Settle(_, _, _)
Settle(m0, s, r) ==
  LET run(m) ==
        IF m.rank[s][r].plan = <<>>
          THEN (IF m.rank[s][r].next > NumCalls(m) THEN m
                ELSE Settle(Load(m, s, r), s, r))
        ELSE IF Blocking(m, r, Head(m.rank[s][r].plan)) THEN m
        ELSE Settle(Apply(m, s, r), s, r)
  IN  CHOOSE out \in {run(m) : m \in {m0}} : TRUE

RECURSIVE SettleFrom(_, _, _)
SettleFrom(m0, s, r) ==
  LET run(m) ==
        IF r > MaxSlaves THEN m
        ELSE SettleFrom(IF r \in RanksOf(m, s) THEN Settle(m, s, r) ELSE m, s, r + 1)
  IN  CHOOSE out \in {run(m) : m \in {m0}} : TRUE

SettleAll(m) == SettleFrom(SettleFrom(m, "acceptor", 0), "requester", 0)

WaitsIn(s, r, prim) ==
  /\ r \in RanksOf(m2n, s)
  /\ m2n.rank[s][r].plan # <<>>
  /\ Head(m2n.rank[s][r].plan).prim = prim

\* The scripts: up to MaxTransfers transfers of an array of a mesh, a bool or
\* a double.
Transfers ==
  {[kind |-> "array", mesh |-> i] : i \in MeshIDs}
    \cup {[kind |-> k, mesh |-> 0] : k \in {"bool", "double"}}

Scripts == UNION {[1 .. n -> Transfers] : n \in 0 .. MaxTransfers}

NewRank(present) ==
  [plan |-> <<>>, call |-> 0, next |-> IF present THEN 1 ELSE MaxTransfers + 3,
   isMasterConnected |-> FALSE, masterCom |-> FALSE, item |-> -1, log |-> <<>>]

NewM2N(sync, barrier, parallel, size, from, payload, script) ==
  [syncMode |-> sync, barrier |-> barrier, parallel |-> parallel, size |-> size,
   from |-> from, payload |-> payload, script |-> script,
   rank |-> [s \in M2NSides |-> [r \in AllRanks |-> NewRank(r < size[s])]],
   master |-> [s \in M2NSides |-> <<>>],
   bus |-> [s \in M2NSides |-> [r \in AllRanks |-> <<>>]],
   dist |-> [key \in DistKeys |-> 0]]

InitM2N ==
  /\ cfg = CHOOSE c \in Configurations : c.acceleration.kind = "Aitken"
  /\ scheme = [p \in Participants |-> SchemeOf(cfg, p)]
  /\ acc = [p \in Participants |-> NewAcceleration]
  /\ chan = [p \in Participants |-> <<>>]
  /\ hist = [p \in Participants |->
               [call |-> "construct", entry |-> NewScheme,
                measured |-> <<TRUE, TRUE, FALSE>>, ops |-> <<>>,
                fine |-> 0]]
  /\ aitken = NoAitken
  /\ \E sync \in BOOLEAN, barrier \in BOOLEAN, parallel \in BOOLEAN,
        from \in M2NSides, payload \in 0 .. MaxValue, script \in Scripts :
       \E size \in [M2NSides -> 1 .. (MaxSlaves + 1)] :
         /\ barrier => sync
         /\ ~ parallel => \A s \in M2NSides : size[s] = 1
         \* either side sends (from), so the acceptor is taken as the larger one
         /\ size["requester"] <= size["acceptor"]
         \* the payload is the bool or the double to send
         /\ (\A i \in DOMAIN script : script[i].kind = "array") => payload = 0
         /\ m2n = SettleAll(NewM2N(sync, barrier, parallel, size, from, payload, script))

M2NStep(m) ==
  /\ m2n' = m
  /\ UNCHANGED <<cfg, scheme, acc, chan, hist, aitken>>

\* _masterCom->acceptConnection and _masterCom->requestConnection meet; the
\* connection is established or it is not.
MasterHandshake ==
  /\ WaitsIn("acceptor", 0, "handshake") /\ WaitsIn("requester", 0, "handshake")
  /\ \E ok \in BOOLEAN :
       LET shaken(rk) == [rk EXCEPT !.plan = Tail(@), !.masterCom = ok,
                                    !.log = Append(@, Ev(rk.call, "handshake",
                                                         Head(rk.plan).item, 0, Bit(ok),
                                                         Bit(rk.isMasterConnected)))]
           m == [m2n EXCEPT !.rank["acceptor"][0] = shaken(@),
                            !.rank["requester"][0] = shaken(@)]
       IN  M2NStep(Settle(Settle(m, "acceptor", 0), "requester", 0))

\* _masterCom->receive(item, 0) on the non-slave rank
MasterChannelReceive(s) ==
  /\ WaitsIn(s, 0, "master.receive")
  /\ m2n.master[s] # <<>>
  /\ M2NStep(Settle(Apply(m2n, s, 0), s, 0))

\* utils::MasterSlave::broadcast on a slave
BroadcastReceive(s, r) ==
  /\ WaitsIn(s, r, "broadcast")
  /\ isSlave(m2n, r)
  /\ m2n.bus[s][r] # <<>>
  /\ M2NStep(Settle(Apply(m2n, s, r), s, r))

\* _distComs[meshID]->receive
DistributedReceive(s, r) ==
  /\ WaitsIn(s, r, "dist.receive")
  /\ DistReady(m2n, s, r, Head(m2n.rank[s][r].plan).mesh)
  /\ M2NStep(Settle(Apply(m2n, s, r), s, r))

RECURSIVE PassEvent(_, _, _)
PassEvent(m0, s, r) ==
  LET run(m) ==
        IF r > MaxSlaves THEN m
        ELSE PassEvent(IF r \in RanksOf(m, s) THEN Apply(m, s, r) ELSE m, s, r + 1)
  IN  CHOOSE out \in {run(m) : m \in {m0}} : TRUE

\* An Event that is a barrier: the ranks of the participant leave it together.
EventBarrier(s) ==
  /\ m2n.syncMode /\ m2n.barrier
  /\ \A r \in RanksOf(m2n, s) :
       WaitsIn(s, r, "event") /\ m2n.rank[s][r].call = m2n.rank[s][0].call
  /\ M2NStep(SettleFrom(PassEvent(m2n, s, 0), s, 0))

NextM2N ==
  \/ MasterHandshake
  \/ \E s \in M2NSides : MasterChannelReceive(s)
  \/ \E s \in M2NSides, r \in AllRanks : BroadcastReceive(s, r)
  \/ \E s \in M2NSides, r \in AllRanks : DistributedReceive(s, r)
  \/ \E s \in M2NSides : EventBarrier(s)

SpecM2N == InitM2N /\ [][NextM2N]_vars

\* The runs of participants with a master in sync mode (the value of a bool
\* or double plays no part in them); every rank that can act does so in the end.
InitM2NSync == InitM2N /\ m2n.syncMode /\ m2n.parallel /\ m2n.payload = 0

SpecM2NFair == InitM2NSync /\ [][NextM2N]_vars /\ WF_vars(NextM2N)

\* ------------------------------------------- C17: the connection status
LogOf(s, r) == m2n.rank[s][r].log

\* The positions of the log of rank r at which it did `what` in call k.
InCall(s, r, k, what) ==
  {i \in DOMAIN LogOf(s, r) : LogOf(s, r)[i].call = k /\ LogOf(s, r)[i].what \in what}

ConnectionCalls == {"acceptMasterConnection", "requestMasterConnection"}

HasReturned(s, r, names) ==
  \E i \in DOMAIN LogOf(s, r) :
    LogOf(s, r)[i].what = "return" /\ LogOf(s, r)[i].item \in names

\* C17: when acceptMasterConnection or requestMasterConnection has returned on
\* a rank, the handshake on the master channel was made by the non-slave rank
\* of the participant, once, and by no other rank, and the rank holds the
\* connection status the master channel had after the handshake; when
\* closeConnection has returned on a rank, the rank holds the status false,
\* and on the non-slave rank the master channel is not connected.
C17_ConnectionStatusAgreement ==
  \A s \in M2NSides : \A r \in RanksOf(m2n, s) : \A i \in DOMAIN LogOf(s, r) :
    LET e == LogOf(s, r)[i]
    IN  /\ e.what = "handshake" => ~ isSlave(m2n, r)
        /\ e.what = "return" /\ e.item \in ConnectionCalls =>
             /\ Cardinality(InCall(s, 0, e.call, {"handshake"})) = 1
             /\ \A j \in InCall(s, 0, e.call, {"handshake"}) :
                  e.status = LogOf(s, 0)[j].val
             /\ r = 0 /\ i = Len(LogOf(s, r)) =>
                  Bit(m2n.rank[s][r].masterCom) = e.status
        /\ e.what = "return" /\ e.item = "closeConnection" =>
             /\ e.status = 0
             /\ r = 0 /\ i = Len(LogOf(s, r)) => ~ m2n.rank[s][r].masterCom

\* C17 witness: a participant with a slave; the master connection was
\* established and every rank of the participant returned from the connecting
\* call holding true, and then from closeConnection.
C17_Witness ==
  \E s \in M2NSides :
    /\ m2n.size[s] > 1
    /\ \A r \in RanksOf(m2n, s) :
         /\ \E i \in DOMAIN LogOf(s, r) :
              /\ LogOf(s, r)[i].what = "return"
              /\ LogOf(s, r)[i].item \in ConnectionCalls
              /\ LogOf(s, r)[i].status = 1
         /\ HasReturned(s, r, {"closeConnection"})

\* ------------------------------------------------------ C18: the routing
IsTransfer(k) == k > 1 /\ k < NumCalls(m2n)

OpOf(k) == m2n.script[k - 1]

MasterChannel == {"master.send", "master.receive"}

Distributed == {"dist.send", "dist.receive"}

\* C18: a rank of a participant with slaves (master or slave) makes an array
\* transfer by one send or receive on the distributed exchange of the mesh of
\* the call, and puts no array on the master channel; a rank of a participant
\* without slaves makes it by one send or receive of the array on the master
\* channel and uses no distributed exchange; a bool or a double is sent and
\* received on the master channel by the non-slave rank only, and every rank
\* returning from such a receive holds the value that was sent.
C18_Routing ==
  \A s \in M2NSides : \A r \in RanksOf(m2n, s) : \A i \in DOMAIN LogOf(s, r) :
    LET e == LogOf(s, r)[i]
        k == e.call
    IN  /\ e.what \in Distributed =>
             /\ m2n.parallel /\ IsTransfer(k)
             /\ OpOf(k).kind = "array" /\ e.mesh = OpOf(k).mesh
             /\ (e.what = "dist.send") = (s = m2n.from)
        /\ e.what \in MasterChannel =>
             /\ ~ isSlave(m2n, r)
             /\ (e.what = "master.send") = (s = m2n.from) \/ e.item = "ack"
             /\ e.item = "array" =>
                  ~ m2n.parallel /\ OpOf(k).kind = "array" /\ e.val = OpOf(k).mesh
             /\ e.item \in {"bool", "double"} => OpOf(k).kind = e.item
             /\ e.item = "ack" => m2n.parallel /\ m2n.syncMode
        /\ e.what = "return" /\ IsTransfer(k) =>
             IF OpOf(k).kind = "array"
               THEN IF m2n.parallel
                      THEN Cardinality(InCall(s, r, k, Distributed)) = 1
                      ELSE /\ Cardinality(InCall(s, r, k, MasterChannel)) = 1
                           /\ InCall(s, r, k, Distributed) = {}
               ELSE /\ InCall(s, r, k, Distributed) = {}
                    /\ Cardinality(InCall(s, r, k, MasterChannel))
                         = (IF isSlave(m2n, r) THEN 0 ELSE 1)
                    /\ s # m2n.from => e.val = ItemOf(OpOf(k).kind, m2n.payload)

\* C18 witness: in a participant with a slave, the slave has returned from the
\* receive of an array, made on the distributed exchange, and from the receive
\* of a bool or double, holding the value the master received.
C18_Witness ==
  \E s \in M2NSides : \E r \in RanksOf(m2n, s) :
    /\ isSlave(m2n, r)
    /\ \E i \in DOMAIN LogOf(s, r) :
         /\ LogOf(s, r)[i].what = "return" /\ LogOf(s, r)[i].item = "receive"
         /\ IsTransfer(LogOf(s, r)[i].call)
         /\ \/ /\ OpOf(LogOf(s, r)[i].call).kind = "array"
               /\ InCall(s, r, LogOf(s, r)[i].call, {"dist.receive"}) # {}
            \/ /\ OpOf(LogOf(s, r)[i].call).kind # "array"
               /\ LogOf(s, r)[i].val = m2n.rank[s][0].item
               /\ m2n.payload > 0

\* --------------------------------------------------- C19: the sync mode
\* What rank r did in call k, in order, of the operations of `what`.
RECURSIVE Filter(_, _, _)
Filter(log, k, what) ==
  IF log = <<>> THEN <<>>
  ELSE (IF Head(log).call = k /\ Head(log).what \in what
          THEN <<<<Head(log).what, Head(log).item>>>> ELSE <<>>)
       \o Filter(Tail(log), k, what)

SenderSequence ==
  <<<<"master.send", "ack">>, <<"master.receive", "ack">>, <<"master.send", "ack">>,
    <<"dist.send", "array">>>>

ReceiverSequence ==
  <<<<"master.receive", "ack">>, <<"master.send", "ack">>, <<"master.receive", "ack">>,
    <<"dist.receive", "array">>>>

SyncTransfer(k) ==
  m2n.syncMode /\ m2n.parallel /\ IsTransfer(k) /\ OpOf(k).kind = "array"

\* The master of side s has made n of its operations on the master channel in
\* call k.
Acked(s, k, n) == Cardinality(InCall(s, 0, k, MasterChannel)) >= n

\* In sync mode the master that returns from a parallel array transfer has
\* made (send ack, receive ack, send ack) and then its distributed send, or
\* (receive ack, send ack, receive ack) and then its distributed receive; a
\* distributed send of the sending master, and of every sending rank where
\* the Event is a barrier, is made after the receiving master has received
\* the first ack in its receive call.
SyncHandshakeOrder ==
  \A s \in M2NSides : \A r \in RanksOf(m2n, s) : \A i \in DOMAIN LogOf(s, r) :
    LET e == LogOf(s, r)[i]
        k == e.call
    IN  SyncTransfer(k) =>
          /\ e.what = "return" /\ r = 0 =>
               Filter(LogOf(s, 0), k, MasterChannel \cup Distributed)
                 = (IF s = m2n.from THEN SenderSequence ELSE ReceiverSequence)
          /\ e.what = "dist.send" /\ (r = 0 \/ m2n.barrier) =>
               InCall(Remote(s), 0, k, {"master.receive"}) # {}

GlobalIDs == 1 .. MaxVertices

VertexLists ==
  {l \in UNION {[1 .. n -> GlobalIDs] : n \in 0 .. MaxVertices} :
     \A i, j \in DOMAIN l : i # j => l[i] # l[j]}

RECURSIVE Entries(_)
Entries(vd) == IF vd = <<>> THEN 0 ELSE Len(Head(vd)) + Entries(Tail(vd))

\* The ranks are numbered by falling number of vertices (their numbering
\* plays no part in the exchange).
VertexDistributions ==
  {vd \in UNION {[1 .. n -> VertexLists] : n \in 1 .. (MaxSlaves + 1)} :
     /\ Entries(vd) <= MaxEntries
     /\ \A r \in DOMAIN vd : r > 1 => Len(vd[r]) <= Len(vd[r - 1])}

Owned(l) == {l[i] : i \in DOMAIN l}

\* The positions, from i on, of the local array whose global ID is owned by
\* the remote rank, ascending.
RECURSIVE IndicesFrom(_, _, _)
IndicesFrom(local, owned, i) ==
  IF i > Len(local) THEN <<>>
  ELSE (IF local[i] \in owned THEN <<i>> ELSE <<>>) \o IndicesFrom(local, owned, i + 1)

\* struct Mapping (the request and the receive buffer are in the channel)
Mapping(remoteRank, indices) == [remoteRank |-> remoteRank, indices |-> indices]

\* PointToPointCommunication::updateVertexList on a rank with the local vertex
\* list `local`: one Mapping for each remote rank.
updateVertexList(local, remote) ==
  [q \in 1 .. Len(remote) |-> Mapping(q, IndicesFrom(local, Owned(remote[q]), 1))]

\* Faulty variant of the gathering of a send buffer: the last index first.
Gather_Reversed(items, indices) ==
  [j \in 1 .. Len(indices) |-> items[indices[Len(indices) + 1 - j]]]

\* The buffer of a send: the items at the indices, in their order.
Gather(items, indices) == [j \in 1 .. Len(indices) |-> items[indices[j]]]

\* PointToPointCommunication::send on a rank: one buffer for each Mapping.
PointToPointSend(mappings, itemsToSend) ==
  [k \in 1 .. Len(mappings) |-> Gather(itemsToSend, mappings[k].indices)]

\* The buffer of a receive is put at the indices, in their order.
Scatter(items, indices, buffer) ==
  [i \in 1 .. Len(items) |->
     IF \E j \in DOMAIN indices : indices[j] = i /\ j <= Len(buffer)
       THEN buffer[CHOOSE j \in DOMAIN indices : indices[j] = i /\ j <= Len(buffer)]
       ELSE items[i]]

\* PointToPointCommunication::receive on rank r: the buffers of the remote
\* ranks are scattered, one Mapping after the other, from Mapping k on.
RECURSIVE PointToPointReceive(_, _, _, _, _)
PointToPointReceive(mappings, sent, r, itemsToReceive, k) ==
  IF k > Len(mappings) THEN itemsToReceive
  ELSE PointToPointReceive(
         mappings, sent, r,
         Scatter(itemsToReceive, mappings[k].indices, sent[mappings[k].remoteRank][r]),
         k + 1)

Sender == "acceptor"

Receiver == "requester"

\* The values the ranks of the sender hold: each names its vertex.
ItemsToSend(vd) == [q \in 1 .. Len(vd) |-> vd[q]]

InitP2P ==
  /\ cfg = CHOOSE c \in Configurations : c.acceleration.kind = "Aitken"
  /\ scheme = [p \in Participants |-> SchemeOf(cfg, p)]
  /\ acc = [p \in Participants |-> NewAcceleration]
  /\ chan = [p \in Participants |-> <<>>]
  /\ hist = [p \in Participants |->
               [call |-> "construct", entry |-> NewScheme,
                measured |-> <<TRUE, TRUE, FALSE>>, ops |-> <<>>,
                fine |-> 0]]
  /\ aitken = NoAitken
  /\ \E vd \in [M2NSides -> VertexDistributions] :
       m2n = [pc |-> "connected", vd |-> vd,
              mappings |-> [s \in M2NSides |-> <<>>],
              sent |-> <<>>,
              x |-> ItemsToSend(vd[Sender]),
              y |-> [r \in 1 .. Len(vd[Receiver]) |->
                       [i \in 1 .. Len(vd[Receiver][r]) |-> 0]]]

\* updateVertexList on every rank of both participants (a collective call).
UpdateVertexList ==
  /\ m2n.pc = "connected"
  /\ M2NStep([m2n EXCEPT
       !.pc = "updated",
       !.mappings = [s \in M2NSides |->
                       [r \in 1 .. Len(m2n.vd[s]) |->
                          updateVertexList(m2n.vd[s][r], m2n.vd[Remote(s)])]]])

\* send on every rank of the sender: sent[q][r] is the buffer of rank q for
\* the remote rank r.
SendItems ==
  /\ m2n.pc = "updated"
  /\ M2NStep([m2n EXCEPT
       !.pc = "sent",
       !.sent = [q \in 1 .. Len(m2n.vd[Sender]) |->
                   PointToPointSend(m2n.mappings[Sender][q], m2n.x[q])]])

\* receive on every rank of the receiver
ReceiveItems ==
  /\ m2n.pc = "sent"
  /\ M2NStep([m2n EXCEPT
       !.pc = "received",
       !.y = [r \in 1 .. Len(m2n.vd[Receiver]) |->
                PointToPointReceive(m2n.mappings[Receiver][r], m2n.sent, r,
                                    m2n.y[r], 1)]])

NextP2P == UpdateVertexList \/ SendItems \/ ReceiveItems

SpecP2P == InitP2P /\ [][NextP2P]_vars

\* ---------------------------------------------------- C20: the round trip
Ascending(l) == \A i, j \in DOMAIN l : i < j => l[i] < l[j]

AscendingDistributions ==
  \A s \in M2NSides : \A r \in DOMAIN m2n.vd[s] : Ascending(m2n.vd[s][r])

\* The indices of the Mapping of rank r of the receiver for rank q of the
\* sender, and of the Mapping of q for r.
ReceiverIndices(r, q) == m2n.mappings[Receiver][r][q].indices
SenderIndices(q, r)   == m2n.mappings[Sender][q][r].indices

\* Every Mapping has unique, ascending indices, and as many as the Mapping of
\* the remote rank for this rank; so many values are sent and received.
MappingsAgree ==
  \A r \in DOMAIN m2n.vd[Receiver] : \A q \in DOMAIN m2n.vd[Sender] :
    /\ Ascending(ReceiverIndices(r, q)) /\ Ascending(SenderIndices(q, r))
    /\ Len(ReceiverIndices(r, q)) = Len(SenderIndices(q, r))
    /\ Len(m2n.sent[q][r]) = Len(ReceiverIndices(r, q))

\* At every position of every pair of Mappings the two indices are of the
\* same global vertex, and y at the receiver's is x at the sender's.
ValuesAgree ==
  \A r \in DOMAIN m2n.vd[Receiver] : \A q \in DOMAIN m2n.vd[Sender] :
    \A j \in DOMAIN ReceiverIndices(r, q) :
      /\ j \in DOMAIN SenderIndices(q, r)
      /\ m2n.vd[Receiver][r][ReceiverIndices(r, q)[j]]
           = m2n.vd[Sender][q][SenderIndices(q, r)[j]]
      /\ m2n.y[r][ReceiverIndices(r, q)[j]] = m2n.x[q][SenderIndices(q, r)[j]]

SecondReceives ==
  <<<<"receive", "dt">>>> \o Times(<<"receive", "data">>, NumReceiveData(Second))

SecondReceivePcs == {"advance_second_receiveAndSetDt", "advance_second_receiveData"}

\* C21: the second participant's implicit advance() with thisTimestepRemainder
\* == 0 waits for dt and data after its sends only if the coupling is ongoing
\* or the iteration did not converge; it returns having received dt and the
\* data, with hasDataBeenExchanged set, exactly in that case, and in the last
\* iteration of the last time step it returns having received nothing, with
\* hasDataBeenExchanged false.
C21_SecondReceivesIffOngoingOrNotConverged ==
  ImplicitAdvance(Second) =>
    LET s == scheme[Second]
        receives == isCouplingOngoing(s) \/ ~ s.convergence
    IN  /\ s.pc \in SecondReceivePcs => receives
        /\ s.pc = "idle" =>
             /\ Receives(hist[Second].ops) = (IF receives THEN SecondReceives ELSE <<>>)
             /\ s.hasDataBeenExchanged = receives
             /\ IsPrefix(ControlThenData("send", NumSendData(Second)), hist[Second].ops)

\* C21 witness: the second participant has returned from the last iteration,
\* the second of its step, of the last time step, with nothing received; and
\* the run was one of more than one time step.
C21_Witness ==
  /\ ImplicitAdvance(Second) /\ scheme[Second].pc = "idle"
  /\ scheme[Second].convergence /\ ~ isCouplingOngoing(scheme[Second])
  /\ hist[Second].entry.iterations = 2
  /\ scheme[Second].timesteps = 2
  /\ Receives(hist[Second].ops) = <<>>
  /\ ~ scheme[Second].hasDataBeenExchanged

\* ------------------------------------------------- the history of the data
\* The solver of p computes a time step or an iteration of one: it writes new
\* values into its send data, once, before the advance() calls of the step.
Solve(p) ==
  /\ scheme[p].pc = "idle"
  /\ isCouplingOngoing(scheme[p])
  /\ hist[p].call # "solve"
  /\ scheme[p].computedTimestepPart = 0
  /\ \E new \in [DOMAIN scheme[p].sendValues -> 0 .. MaxValue] :
       /\ new # scheme[p].sendValues
       /\ Enter(p, "solve", SetS(Start(p), [scheme[p] EXCEPT !.sendValues = new]))

\* Implicit runs of one or two time steps (of one time step of at most two
\* iterations with the multi-level acceleration) with one datum in each
\* direction and no datum to initialize, in which the data of the second
\* participant have no history column or one when initialize() is called
\* (setupDataMatrices or the configuration may have made one).
InitHistory ==
  /\ cfg \in Configurations
  /\ cfg.couplingMode = "Implicit"
  /\ cfg.maxTime = UNDEFINED_TIME /\ cfg.maxTimesteps <= 2
  /\ cfg.data12 = <<FALSE>> /\ cfg.data21 = <<FALSE>>
  /\ cfg.acceleration.kind = "Multilevel" =>
       cfg.maxTimesteps = 1 /\ cfg.maxIterations <= 2
  /\ \E sendCols, receiveCols \in 0 .. 1 :
       scheme = [p \in Participants |->
                   IF doesFirstStep(p) THEN SchemeOf(cfg, p)
                   ELSE [SchemeOf(cfg, p) EXCEPT
                           !.sendOldValues = ZeroColumns(getSendData(cfg, p), sendCols),
                           !.receiveOldValues =
                              ZeroColumns(getReceiveData(cfg, p), receiveCols)]]
  /\ acc = [p \in Participants |-> NewAcceleration]
  /\ chan = [p \in Participants |-> <<>>]
  /\ hist = [p \in Participants |->
               [call |-> "construct", entry |-> NewScheme,
                measured |-> <<TRUE, TRUE, FALSE>>, ops |-> <<>>,
                fine |-> 0]]
  /\ aitken = NoAitken
  /\ m2n = NoM2N

NextHistory ==
  \E p \in Participants :
    \/ Solve(p)
    \/ Initialize(p)
    \/ InitializeReceiveDt(p)
    \/ InitializeReceiveData(p)
    \/ InitializeData(p)
    \/ MarkActionFulfilled(p)
    \/ Advance(p)
    \/ AdvanceReceiveConvergence(p)
    \/ AdvanceReceiveCoarse(p)
    \/ AdvanceFirstReceiveData(p)
    \/ AdvanceSecondReceiveDt(p)
    \/ AdvanceSecondReceiveData(p)

SpecHistory == InitHistory /\ [][NextHistory]_vars

\* ------------------------------------------------ C22: oldValues.col(0)
\* The second participant has returned from an advance() with
\* thisTimestepRemainder == 0 that was not a solver-evaluation-only substep.
EvaluatedAdvance ==
  /\ ImplicitAdvance(Second) /\ scheme[Second].pc = "idle"
  /\ ~ scheme[Second].doOnlySolverEvaluation

SendHistories    == {i \in DOMAIN scheme[Second].sendOldValues :
                       scheme[Second].sendOldValues[i] # <<>>}
ReceiveHistories == {i \in DOMAIN scheme[Second].receiveOldValues :
                       scheme[Second].receiveOldValues[i] # <<>>}

\* Column 0 of a send datum: the values as they were before the history was
\* stored (those the advance() was entered with) after convergence, the
\* current (relaxed) values after non-convergence.
SendColumnStored ==
  \A i \in SendHistories :
    /\ scheme[Second].convergence =>
         scheme[Second].sendOldValues[i][1] = hist[Second].entry.sendValues[i]
    /\ ~ scheme[Second].convergence =>
         scheme[Second].sendOldValues[i][1] = scheme[Second].sendValues[i]

AitkenOnSecond ==
  /\ cfg.acceleration.kind = "Aitken"
  /\ scheme[Second].isInitialized /\ scheme[Second].error = "none"

\* The performAcceleration calls of the current time step: one in every
\* non-converged iteration (the iteration count of the scheme is updated at
\* the end of advance()).
AccelerationsInStep ==
  IF scheme[Second].pc \in SecondReceivePcs
    THEN IF scheme[Second].convergence THEN 0 ELSE scheme[Second].iterations
    ELSE scheme[Second].iterations - 1

\* Aitken accelerations as an advance() can find them: initialized, with any
\* relaxation factor and any stored residual.
AitkenStates ==
  UNION {
    {[x EXCEPT !.o.aitkenFactor = w, !.o.residuals = res] :
       w \in {Num(-1), Rat(1, 2), Num(1)},
       res \in [DOMAIN x.o.residuals -> {Sentinel, Num(0), Num(1)}]}
    : x \in {y \in UNION {{AitkenInitialize(Obj(AitkenAcceleration(r, k[2]), data)) :
                               r \in InitialRelaxations, data \in AitkenData(k[1])} :
                             k \in AitkenConfigs} : y.o.pc = "initialized"}}

\* iterationsConverged leaves the counter 0 and a sentinel in every entry of
\* the residual; performAcceleration with counter 0 takes the factor
\* sign(omega_prev) * min(initialRelaxation, |omega_prev|), counts 1, and its
\* result is the same whatever the stored residual.
FirstIterationBranch ==
  \A x \in AitkenStates :
    /\ AitkenIterationsConverged(x).o.iterationCounter = 0
    /\ \A i \in DOMAIN x.o.residuals :
         AitkenIterationsConverged(x).o.residuals[i] = Sentinel
    /\ LET x0 == AitkenIterationsConverged(x)
           x1 == AitkenPerformAcceleration(x0, FALSE)
       IN  /\ x1.o.aitkenFactor =
                RMul(RSign(x.o.aitkenFactor),
                     RMin(x.o.initialRelaxation, RAbs(x.o.aitkenFactor)))
           /\ x1.o.iterationCounter = 1
           /\ x1.data = Relax(x.data, x1.o.aitkenFactor)
           /\ x1 = AitkenPerformAcceleration([x EXCEPT !.o.iterationCounter = 0], FALSE)

\* C23: with an Aitken acceleration on the second participant, whenever an
\* advance() returns with the time step completed the acceleration's iteration
\* counter is 0 and its residual the sentinel; the counter is the number of
\* performAcceleration calls made in the current time step, so the first
\* performAcceleration of a step is entered with counter 0 and takes the
\* first-iteration branch, which does not use the stored residual.
C23_AitkenResetBetweenSteps ==
  AitkenOnSecond =>
    /\ acc[Second].iterationCounter = AccelerationsInStep
    /\ (scheme[Second].pc = "idle" /\ scheme[Second].iterations = 1) =>
         acc[Second].residuals = "sentinel"
    /\ (Returned(Second, "advance") /\ scheme[Second].isCouplingTimestepComplete) =>
         /\ acc[Second].iterationCounter = 0
         /\ acc[Second].residuals = "sentinel"
         /\ FirstIterationBranch

\* C23 witness: a time step was completed after an accelerated iteration, and
\* the second participant has accelerated the first iteration of the next
\* time step.
C23_Witness ==
  /\ AitkenOnSecond
  /\ ImplicitAdvance(Second) /\ scheme[Second].pc = "idle"
  /\ scheme[Second].timesteps = 1 /\ scheme[Second].iterations = 2
  /\ cfg.maxIterations = 2
  /\ acc[Second].iterationCounter = 1 /\ acc[Second].residuals = "stored"


\* ------------------------------------------- C24: relaxation of all data
\* performAcceleration has been called and has returned.
Accelerated ==
  /\ aitken.last.call = "performAcceleration"
  /\ aitken.obj.o.pc = "initialized"

\* The relaxation of one value: omega * v + (1 - omega) * old.
RelaxedValue(v, old, omega) == RAdd(RMul(omega, v), RMul(RSub(Num(1), omega), old))

\* C24: performAcceleration relaxes every datum of the data map it is given,
\* the data that are not accelerated included: each entry of values becomes
\* omega * values + (1 - omega) * oldValues.col(0) with the one omega the call
\* computed; oldValues of every datum is unchanged, and the stored residual is
\* values - oldValues.col(0) of the accelerated IDs before the relaxation.
C24_AllDataRelaxed ==
  Accelerated =>
    LET pre   == aitken.last.pre
        omega == aitken.obj.o.aitkenFactor
    IN  /\ DOMAIN aitken.obj.data = DOMAIN pre.data
        /\ \A id \in DOMAIN pre.data :
             /\ aitken.obj.data[id].oldValues = pre.data[id].oldValues
             /\ DOMAIN aitken.obj.data[id].values = DOMAIN pre.data[id].values
             /\ \A i \in DOMAIN pre.data[id].values :
                  aitken.obj.data[id].values[i]
                    = RelaxedValue(pre.data[id].values[i],
                                   pre.data[id].oldValues[1][i], omega)
        /\ aitken.obj.o.residuals
             = VSub(Concatenation(pre.data, pre.o.dataIDs, "values"),
                    Concatenation(pre.data, pre.o.dataIDs, "oldValues"))

\* C24 witness: performAcceleration has returned on a map of two data of which
\* one is accelerated, and the value of the other datum has changed.
C24_Witness ==
  /\ Accelerated
  /\ \E id \in DOMAIN aitken.obj.data :
       /\ \A k \in DOMAIN aitken.obj.o.dataIDs : aitken.obj.o.dataIDs[k] # id
       /\ aitken.obj.data[id].values # aitken.last.pre.data[id].values
       /\ ~ IsNaN(aitken.obj.data[id].values[1])


\* ------------------------------------- C25: the coarse-model flag is shared
\* The value of isCoarseModelOptimizationActive the second participant's
\* advance() sends, from the flag at entry, the measurement and the value a
\* multi-level acceleration writes.
FlagSent ==
  LET entry    == hist[Second].entry
      coarse   == entry.isCoarseModelOptimizationActive
      cc       == hist[Second].measured[2] \/ maxIterationsReached(entry)
      measured == IF coarse THEN ~ cc ELSE entry.isCoarseModelOptimizationActive
      only     == coarse /\ cc
  IN  IF ~ only /\ cfg.acceleration.kind = "Multilevel"
        THEN hist[Second].measured[3] ELSE measured

\* C25: the second participant sends the flag as it is after the measurement
\* and after the acceleration has run, and keeps it until its advance()
\* returns; when the first participant's advance() has returned from its round
\* trip, its flag is the flag the second participant sent.
C25_CoarseFlagSynchronized ==
  /\ (ImplicitAdvance(Second) /\ scheme[Second].pc # "failed") =>
       scheme[Second].isCoarseModelOptimizationActive = FlagSent
  /\ scheme[First].pc = "advance_receiveCoarse" =>
       Head(chan[First]).val = scheme[Second].isCoarseModelOptimizationActive
  /\ (ImplicitAdvance(First) /\ scheme[First].pc = "idle") =>
       scheme[First].isCoarseModelOptimizationActive
         = scheme[Second].isCoarseModelOptimizationActive

\* C25 witness: a round trip has ended in which the flag was inactive at the
\* second participant's entry and the acceleration switched it on, and the
\* first participant holds the new value.
C25_Witness ==
  /\ ImplicitAdvance(First) /\ scheme[First].pc = "idle"
  /\ ImplicitAdvance(Second)
  /\ ~ hist[Second].entry.isCoarseModelOptimizationActive
  /\ ~ hist[First].entry.isCoarseModelOptimizationActive
  /\ hist[Second].measured[3]
  /\ scheme[First].isCoarseModelOptimizationActive


\* ------------------------- C26: no time step without convergence
\* What a returned implicit advance() of p has done to the step counter, the
\* completion flag and the time: the step is counted and flagged complete
\* exactly when convergence is true, and without convergence the time is set
\* back to the start of the time step.
StepCountedIffConverged(p) ==
  LET entry == hist[p].entry
      s     == scheme[p]
  IN  /\ s.timesteps = entry.timesteps + (IF s.convergence THEN 1 ELSE 0)
      /\ s.isCouplingTimestepComplete = s.convergence
      /\ ~ s.convergence => s.time = entry.time - entry.computedTimestepPart
      /\ s.convergence => s.time = entry.time

\* C26: the first participant counts a time step only when the convergence
\* flag it received is true, the second participant only when it measured
\* convergence outside a solver-evaluation-only substep; when the first
\* participant's advance() has returned from its round trip both participants
\* have the same step counter and the same isCouplingTimestepComplete.
C26_NoStepWithoutConvergence ==
  /\ \A p \in Participants :
       (ImplicitAdvance(p) /\ scheme[p].pc = "idle") => StepCountedIffConverged(p)
  /\ (ImplicitAdvance(Second) /\ scheme[Second].pc \in SecondReceivePcs \cup {"idle"}) =>
       /\ scheme[Second].timesteps = hist[Second].entry.timesteps
            + (IF scheme[Second].convergence THEN 1 ELSE 0)
       /\ scheme[Second].convergence => ~ scheme[Second].doOnlySolverEvaluation
  /\ (ImplicitAdvance(First) /\ scheme[First].pc = "idle") =>
       /\ scheme[First].timesteps = scheme[Second].timesteps
       /\ scheme[First].isCouplingTimestepComplete
            = scheme[Second].isCouplingTimestepComplete
       /\ scheme[First].convergence = scheme[Second].convergence

\* C26 witness: a round trip without convergence has ended: the first
\* participant has returned, the second waits for the next iteration, and the
\* step counter of both is the one at entry.
C26_Witness ==
  /\ ImplicitAdvance(First) /\ scheme[First].pc = "idle"
  /\ ImplicitAdvance(Second) /\ scheme[Second].pc \in SecondReceivePcs
  /\ ~ scheme[First].convergence
  /\ hist[First].entry.timesteps = 1
  /\ scheme[First].timesteps = 1 /\ scheme[Second].timesteps = 1


\* --------------------------------------------- whole runs of the two solvers
\* A configuration initialize() accepts on both participants.
ConsistentConfiguration ==
  /\ ~ HasInitialize(cfg.data12)
  /\ cfg.couplingMode = "Implicit" =>
       /\ cfg.data12 # <<>> /\ cfg.data21 # <<>>
       /\ hasAcceleration => Head(cfg.acceleration.dataIDs) = <<Second, 1>>

\* Runs of one or two time steps, with at most one datum in each direction.
InitRun ==
  /\ Init
  /\ ConsistentConfiguration
  /\ cfg.maxTimesteps <= 2 /\ cfg.maxTime <= 2 * TimestepLength
  /\ Len(cfg.data12) <= 1 /\ Len(cfg.data21) <= 1

\* The solver of p follows the call protocol: initialize() first; then
\* initializeData() where initial data are pending, after the initial data
\* have been written; advance() only with no action outstanding.
InitializeDataCall(p) ==
  /\ scheme[p].pc = "idle"
  /\ scheme[p].hasToSendInitData \/ scheme[p].hasToReceiveInitData
  /\ scheme[p].actions = {}
  /\ InitializeData(p)

AdvanceCall(p) ==
  /\ scheme[p].actions = {}
  /\ ~ scheme[p].hasToSendInitData /\ ~ scheme[p].hasToReceiveInitData
  /\ Advance(p)

StepRun(p) ==
  \/ Initialize(p)
  \/ InitializeReceiveDt(p)
  \/ InitializeReceiveData(p)
  \/ InitializeDataCall(p)
  \/ InitializeDataReceiveData(p)
  \/ InitializeDataReceiveDt(p)
  \/ InitializeDataReceiveData2(p)
  \/ MarkActionFulfilled(p)
  \/ AdvanceCall(p)
  \/ AdvanceExplicitReceiveDt(p)
  \/ AdvanceExplicitReceiveData(p)
  \/ AdvanceReceiveConvergence(p)
  \/ AdvanceReceiveCoarse(p)
  \/ AdvanceFirstReceiveData(p)
  \/ AdvanceSecondReceiveDt(p)
  \/ AdvanceSecondReceiveData(p)

NextRun == \E p \in Participants : StepRun(p)

\* The two solvers run: while one of them can take a step, a step is taken.
SpecRun == InitRun /\ [][NextRun]_vars /\ WF_vars(NextRun)

\* ------------------------------------------- C27: implicit steps terminate
\* Both participants have left the coupling loop.
CouplingEnded ==
  \A p \in Participants :
    scheme[p].pc = "idle" /\ scheme[p].isInitialized /\ ~ isCouplingOngoing(scheme[p])

Blocked(p) == scheme[p].pc \notin {"constructed", "idle", "failed"}

\* No call has failed: every receive found a message of its own kind at the
\* head of the channel, and no call was refused.
NoFailure == \A p \in Participants : scheme[p].pc # "failed"

\* Once both participants have left the coupling loop no message is in flight.
NothingLeft == CouplingEnded => \A p \in Participants : chan[p] = <<>>

\* C28: in a run of two consistently configured solvers over initialize(),
\* initializeData() and advance(), in explicit and in implicit mode, with and
\* without data initialization, every receive reads messages of its own kind
\* from the head of the channel, no participant waits in a receive for ever
\* (the run reaches the end of the coupling, where both participants have
\* returned from their last call, and stays there), and no message is left in
\* flight at the end.
C28_SendsMatchReceives ==
  /\ [](NoFailure /\ NothingLeft)
  /\ <>[](CouplingEnded /\ \A p \in Participants : ~ Blocked(p))

\* C28 witness: an implicit run in which the second participant initialized
\* data has ended after an iteration without convergence, with nothing in flight.
C28_Witness ==
  /\ cfg.couplingMode = "Implicit" /\ HasInitialize(cfg.data21)
  /\ CouplingEnded
  /\ \A p \in Participants : chan[p] = <<>> /\ scheme[p].timesteps = MaxTimesteps
  /\ hist[Second].entry.iterations = MaxIterations


\* ------------------------------------------------ C29: subcycling calls
\* This step is a call of advance() by p that passes the entry checks with a
\* part of the time step still to compute.
SubcyclingAdvance(p) ==
  /\ scheme[p].pc = "idle"
  /\ hist'[p] # hist[p] /\ hist'[p].call = "advance"
  /\ hist'[p].entry.actions = {}
  /\ ~ hist'[p].entry.hasToSendInitData /\ ~ hist'[p].entry.hasToReceiveInitData
  /\ getThisTimestepRemainder(hist'[p].entry) # 0

\* What a subcycling call leaves as it was, and the two flags it clears.
SubcyclingFrame(p) ==
  LET entry == hist'[p].entry
      s     == scheme'[p]
  IN  /\ s.pc = "idle"
      /\ hist'[p].ops = <<>> /\ chan' = chan
      /\ acc' = acc
      /\ s.timesteps = scheme[p].timesteps /\ s.time = entry.time
      /\ s.computedTimestepPart = entry.computedTimestepPart
      /\ s.iterations = scheme[p].iterations
      /\ s.iterationsCoarseOptimization = scheme[p].iterationsCoarseOptimization
      /\ s.isCoarseModelOptimizationActive = scheme[p].isCoarseModelOptimizationActive
      /\ s.sendValues = scheme[p].sendValues
      /\ s.receiveValues = scheme[p].receiveValues
      /\ s.sendOldValues = scheme[p].sendOldValues
      /\ s.receiveOldValues = scheme[p].receiveOldValues
      /\ s.actions = scheme[p].actions /\ s.actions = {}
      /\ ~ s.hasDataBeenExchanged /\ ~ s.isCouplingTimestepComplete

\* C29: an advance() entered with thisTimestepRemainder != 0, in explicit or in
\* implicit mode, sends and receives nothing, leaves the step counter, the
\* values and histories of the coupling data, the acceleration and the required
\* actions as they were (readIterationCheckpoint is not required), and returns
\* with hasDataBeenExchanged and isCouplingTimestepComplete false.
C29_SubcyclingFrame ==
  [][\A p \in Participants : SubcyclingAdvance(p) => SubcyclingFrame(p)]_vars

\* C29 witness: the second participant has returned from a subcycling advance()
\* in the second iteration of an implicit time step, after a call that had
\* exchanged data.
C29_Witness ==
  /\ cfg.couplingMode = "Implicit"
  /\ Returned(Second, "advance")
  /\ hist[Second].entry.actions = {}
  /\ getThisTimestepRemainder(hist[Second].entry) # 0
  /\ hist[Second].entry.hasDataBeenExchanged
  /\ hist[Second].entry.iterations = 2
  /\ ~ scheme[Second].hasDataBeenExchanged


\* ------------------------------ C30: iterations of the coarse-model optimization
\* This step is a call of advance() by the second participant, in implicit
\* mode, that passes the entry checks with the time step computed in full and
\* with the coarse-model optimization active.
CoarseAdvance ==
  /\ cfg.couplingMode = "Implicit"
  /\ scheme[Second].pc = "idle"
  /\ hist'[Second] # hist[Second] /\ hist'[Second].call = "advance"
  /\ hist'[Second].entry.actions = {}
  /\ ~ hist'[Second].entry.hasToSendInitData
  /\ ~ hist'[Second].entry.hasToReceiveInitData
  /\ getThisTimestepRemainder(hist'[Second].entry) = 0
  /\ hist'[Second].entry.isCoarseModelOptimizationActive

\* The coarse-model optimization converged in the call, or maxIterations was
\* reached.
CoarseConverged ==
  hist'[Second].measured[2] \/ maxIterationsReached(hist'[Second].entry)

\* What such a call does up to its receive: convergence is sent as false, the
\* step is not completed, iterationsConverged is not called (the acceleration
\* is as it was or one performAcceleration further), and the call goes on to
\* receive; if the coarse-model optimization converged the flag is inactive,
\* the acceleration is untouched and no history column is written.
CoarseAdvanceEffect ==
  LET s == scheme'[Second]
  IN  /\ ~ s.convergence
      /\ Len(chan'[First]) = Len(chan[First]) + 2 + NumSendData(Second)
      /\ chan'[First][Len(chan[First]) + 1] = [type |-> "bool", val |-> FALSE]
      /\ chan'[First][Len(chan[First]) + 2]
           = [type |-> "bool", val |-> s.isCoarseModelOptimizationActive]
      /\ s.timesteps = scheme[Second].timesteps
      /\ ~ s.isCouplingTimestepComplete
      /\ \/ acc'[Second] = acc[Second]
         \/ acc'[Second] = [iterationCounter |-> acc[Second].iterationCounter + 1,
                            residuals |-> "stored"]
      /\ s.pc \in SecondReceivePcs
      /\ s.doOnlySolverEvaluation = CoarseConverged
      /\ CoarseConverged =>
           /\ ~ s.isCoarseModelOptimizationActive
           /\ acc'[Second] = acc[Second]
           /\ s.sendOldValues = scheme[Second].sendOldValues
           /\ s.receiveOldValues = scheme[Second].receiveOldValues

\* The call has returned.
CoarseAdvanceReturned ==
  /\ ImplicitAdvance(Second) /\ scheme[Second].pc = "idle"
  /\ hist[Second].entry.isCoarseModelOptimizationActive

\* C30: an advance() of the second participant entered, with the time step
\* computed in full, while the coarse-model optimization is active does not
\* complete the step: it sends convergence == false, calls neither
\* timestepCompleted nor iterationsConverged, and leaves readIterationCheckpoint
\* required when it returns; if the coarse-model optimization converged or
\* maxIterations was reached, the flag is inactive afterwards and neither
\* performAcceleration nor the copy of the values into oldValues.col(0) is made.
C30_CoarseIterationNeverCompletes ==
  /\ [][CoarseAdvance => CoarseAdvanceEffect]_vars
  /\ [](CoarseAdvanceReturned =>
          /\ isActionRequired(scheme[Second], "readIterationCheckpoint")
          /\ ~ scheme[Second].convergence
          /\ ~ scheme[Second].isCouplingTimestepComplete
          /\ scheme[Second].timesteps = hist[Second].entry.timesteps)

\* C30 witness: the second participant has returned from a solver-evaluation-only
\* substep in which the values of its send datum differ from column 0 of its
\* history, after an acceleration had been performed in the step.
C30_Witness ==
  /\ CoarseAdvanceReturned
  /\ scheme[Second].doOnlySolverEvaluation
  /\ ~ scheme[Second].isCoarseModelOptimizationActive
  /\ scheme[Second].sendOldValues[1] # <<>>
  /\ scheme[Second].sendValues[1] # scheme[Second].sendOldValues[1][1]
  /\ isActionRequired(scheme[Second], "readIterationCheckpoint")


\* --------------------------------------- C31: one acceleration hook per iteration
\* This step is a call of advance() by the second participant, in implicit
\* mode with an acceleration configured, that passes the entry checks with the
\* time step computed in full and is not a solver-evaluation-only substep.
AcceleratedAdvance ==
  /\ cfg.couplingMode = "Implicit" /\ hasAcceleration
  /\ scheme[Second].pc = "idle"
  /\ hist'[Second] # hist[Second] /\ hist'[Second].call = "advance"
  /\ hist'[Second].entry.actions = {}
  /\ ~ hist'[Second].entry.hasToSendInitData
  /\ ~ hist'[Second].entry.hasToReceiveInitData
  /\ getThisTimestepRemainder(hist'[Second].entry) = 0
  /\ ~ scheme'[Second].doOnlySolverEvaluation

\* The messages such a call puts on the channel to the first participant: the
\* two control booleans and the send data, all as they are after the
\* acceleration has been called.
SentAfterAcceleration ==
  LET s   == scheme'[Second]
      ids == IdSeq(DOMAIN getSendData(cfg, Second))
      n   == Len(chan[First])
  IN  /\ Len(chan'[First]) = n + 2 + Len(ids)
      /\ SubSeq(chan'[First], 1, n) = chan[First]
      /\ chan'[First][n + 1] = [type |-> "bool", val |-> s.convergence]
      /\ chan'[First][n + 2]
           = [type |-> "bool", val |-> s.isCoarseModelOptimizationActive]
      /\ \A i \in 1 .. Len(ids) :
           chan'[First][n + 2 + i] = [type |-> "array", val |-> s.sendValues[ids[i]]]

\* What such a call does with the acceleration: after convergence
\* iterationsConverged has reset it and the values are as the solver wrote
\* them; after non-convergence performAcceleration has been counted once and
\* the values are relaxed values.
OneAccelerationHook ==
  LET s == scheme'[Second]
  IN  /\ s.convergence =>
           /\ acc'[Second] = [iterationCounter |-> 0, residuals |-> "sentinel"]
           /\ s.sendValues = scheme[Second].sendValues
      /\ ~ s.convergence =>
           /\ acc'[Second] = [iterationCounter |-> acc[Second].iterationCounter + 1,
                              residuals |-> "stored"]
           /\ s.sendValues \in RelaxedInputs(Second)

\* C31: in every advance() of the second participant with the time step
\* computed in full, an acceleration configured and no solver-evaluation-only
\* substep, exactly one of iterationsConverged (convergence) and
\* performAcceleration (no convergence) is called, once, and before the control
\* booleans and the data are sent: the data sent after a non-converged
\* iteration are the relaxed values.
C31_OneAccelerationHookBeforeSend ==
  [][AcceleratedAdvance => OneAccelerationHook /\ SentAfterAcceleration]_vars

\* C31 witness: the second participant has made a non-converged iteration in
\* which performAcceleration changed the value of its send datum, and the
\* relaxed value is the last datum on the channel to the first participant.
C31_Witness ==
  /\ ImplicitAdvance(Second) /\ hasAcceleration
  /\ scheme[Second].pc \in SecondReceivePcs
  /\ ~ scheme[Second].convergence /\ ~ scheme[Second].doOnlySolverEvaluation
  /\ acc[Second].iterationCounter > 0
  /\ scheme[Second].sendValues[1] # hist[Second].entry.sendValues[1]
  /\ chan[First] # <<>>
  /\ chan[First][Len(chan[First])]
       = [type |-> "array", val |-> scheme[Second].sendValues[1]]

====
